---- MODULE Spec2Model ----
(***************************************************************************)
(* A model of the tutoring orchestrator of De033/tutor_agent:              *)
(*   core/orchestrator.py   IntelligentTutorAgent (the dialogue state      *)
(*                          machine, knowledge-base generation, tutoring)  *)
(*   core/knowledge_base.py KnowledgeBase (scan, fuzzy load, lookup,       *)
(*                          check_kb_validity)                             *)
(*   core/tools_custom.py   save_knowledge_base, add_concept_to_kb         *)
(*                          (load-merge-save)                              *)
(*   core/planner.py        AnalyticalPlanner (update_mastery,             *)
(*                          select_next_action)                            *)
(*   core/review_manager.py ReviewManager (_load_deck, add_card,           *)
(*                          delete_card, update_card_review)               *)
(*                                                                         *)
(* Spec is the program as its user drives it.  StorageSpec, TutoringSpec,  *)
(* SessionSpec and DeckSpec are the storage, the planner with a tutoring   *)
(* session, a tutoring session and the review manager, each on its own.    *)
(* ManagerSpec is DeckSpec with runs that open the deck file; LoadSpec is  *)
(* StorageSpec with loads by any name; ValiditySpec is check_kb_validity   *)
(* on any directory; WritersSpec is two calls of the storage tools at      *)
(* once.  The session history is kept as the roles of its entries.         *)
(*                                                                         *)
(* A call of an entry point (step, set_uploaded_material) is one action,   *)
(* run from its first line to its return or to the exception that leaves   *)
(* it, except that a call which enters knowledge-base generation goes on   *)
(* with one action for each request to the generator and one for what the  *)
(* loop does with the answer, and that a tutoring turn is one action up to *)
(* the end of the flashcard pipeline and one from there on; pc says where  *)
(* the call is, and no other call starts before it is back at "idle".  The *)
(* answers of the external services, the faults of the storage and the     *)
(* order in which the directory is listed are the inputs, drawn with \E.   *)
(*                                                                         *)
(* Strings that the code computes with (topics, file names, canonical      *)
(* names) are sequences of one-character strings; a mastery value is a     *)
(* whole number of units of 1/MasteryScale (1.0 is MasteryScale).          *)
(***************************************************************************)
EXTENDS Integers, Sequences, FiniteSets, TLC

None == "None"          \* Python's None, where the other values are atoms
Nil == <<"None">>       \* Python's None, where the other values are strings or lists

(***************************************************************************)
(* Bounds of the model.                                                    *)
(***************************************************************************)
MaxSubTopics == 2      \* longest sub_topics list a service returns
MaxConcepts == 2       \* most concepts in one generated knowledge base
MaxTurns == 4          \* calls of entry points in one run of the program
MaxRoundTrips == 2     \* storage round trips in one run of the storage on its own

ConceptIds == {"A", "B"}

(***************************************************************************)
(* Characters and strings.  "?" stands for any character that is neither   *)
(* alphanumeric, nor a space, nor an underscore (nor a path separator).    *)
(***************************************************************************)
IsUpper(c) == c = "A"
IsLower(c) == c = "a"
IsCased(c) == IsUpper(c) \/ IsLower(c)
IsAlnum(c) == IsCased(c)
Upper(c) == IF c = "a" THEN "A" ELSE c
Lower(c) == IF c = "A" THEN "a" ELSE c

\* Code points, for Python's ordering of strings.
Ord(c) == CASE c = " " -> 32 [] c = "?" -> 63 [] c = "A" -> 65
            [] c = "_" -> 95 [] c = "a" -> 97 [] OTHER -> 0

\* str.rstrip(): trailing whitespace removed.
RECURSIVE RStrip(_)
RStrip(s) == IF s # <<>> /\ s[Len(s)] = " " THEN RStrip(SubSeq(s, 1, Len(s) - 1))
             ELSE s

KeepInFilename(c) == IsAlnum(c) \/ c = " " \/ c = "_"

\* tools_custom.py:19  "".join(c for c in topic if c.isalnum() or c in (' ', '_')).rstrip()
SanitizeFilename(topic) == RStrip(SelectSeq(topic, KeepInFilename))

\* str.replace('_', ' ')
ReplaceUnderscores(s) == [i \in 1..Len(s) |-> IF s[i] = "_" THEN " " ELSE s[i]]

\* str.title(): a cased character is upper-cased when it follows an uncased
\* character (or starts the string) and lower-cased otherwise.
Title(s) == [i \in 1..Len(s) |->
               IF i = 1 \/ ~IsCased(s[i - 1]) THEN Upper(s[i]) ELSE Lower(s[i])]

\* filename[:-5].replace('_', ' ').title() of a file <stem>.json
CanonicalName(stem) == Title(ReplaceUnderscores(stem))

(***************************************************************************)
(* difflib.get_close_matches(word, possibilities, n=1, cutoff), as the     *)
(* standard library computes it for strings shorter than 200 characters    *)
(* (no junk): the ratio is 2*M/T, M the characters in the matching blocks  *)
(* found by the longest-block recursion with x as the first sequence and   *)
(* the word as the second, T the two lengths together.                     *)
(***************************************************************************)
\* Length of the common run of a from i and b from j, inside a[..ahi], b[..bhi].
RECURSIVE RunLen(_, _, _, _, _, _)
RunLen(a, b, i, j, ahi, bhi) ==
    IF i > ahi \/ j > bhi \/ a[i] # b[j] THEN 0
    ELSE 1 + RunLen(a, b, i + 1, j + 1, ahi, bhi)

\* SequenceMatcher.find_longest_match: the longest block, the earliest in a
\* among the longest, the earliest in b among those.
FindLongestMatch(a, b, alo, ahi, blo, bhi) ==
    LET cand == {<<i, j>> \in (alo..ahi) \X (blo..bhi) : RunLen(a, b, i, j, ahi, bhi) > 0}
    IN  IF cand = {} THEN <<alo, blo, 0>>
        ELSE LET best == CHOOSE p \in cand : \A q \in cand :
                            LET kp == RunLen(a, b, p[1], p[2], ahi, bhi)
                                kq == RunLen(a, b, q[1], q[2], ahi, bhi)
                            IN  \/ kp > kq
                                \/ kp = kq /\ p[1] < q[1]
                                \/ kp = kq /\ p[1] = q[1] /\ p[2] <= q[2]
             IN  <<best[1], best[2], RunLen(a, b, best[1], best[2], ahi, bhi)>>

\* Sum of the sizes of SequenceMatcher.get_matching_blocks.
RECURSIVE MatchCount(_, _, _, _, _, _)
MatchCount(a, b, alo, ahi, blo, bhi) ==
    IF alo > ahi \/ blo > bhi THEN 0
    ELSE LET m == FindLongestMatch(a, b, alo, ahi, blo, bhi)
         IN  IF m[3] = 0 THEN 0
             ELSE m[3] + MatchCount(a, b, alo, m[1] - 1, blo, m[2] - 1)
                       + MatchCount(a, b, m[1] + m[3], ahi, m[2] + m[3], bhi)

Matches(x, word) == MatchCount(x, word, 1, Len(x), 1, Len(word))

\* ratio() >= cutoff, the cutoff in hundredths; two empty strings have ratio 1.
RatioAtLeast(x, word, cutoffPct) ==
    \/ Len(x) + Len(word) = 0
    \/ 200 * Matches(x, word) >= cutoffPct * (Len(x) + Len(word))

\* Python's < on strings.
RECURSIVE StrLess(_, _)
StrLess(s, t) ==
    IF t = <<>> THEN FALSE
    ELSE IF s = <<>> THEN TRUE
    ELSE IF Ord(s[1]) # Ord(t[1]) THEN Ord(s[1]) < Ord(t[1])
    ELSE StrLess(Tail(s), Tail(t))

\* ratio(x) > ratio(y) against the same word, or equal ratios and x the
\* greater string: the order of heapq.nlargest on (score, x).
BetterMatch(x, y, word) ==
    LET sx == Matches(x, word) * (Len(y) + Len(word))
        sy == Matches(y, word) * (Len(x) + Len(word))
    IN  \/ Len(x) + Len(word) = 0 /\ Len(y) + Len(word) # 0
        \/ /\ Len(x) + Len(word) # 0 /\ Len(y) + Len(word) # 0
           /\ \/ sx > sy
              \/ sx = sy /\ StrLess(y, x)

\* get_close_matches(word, names, n=1, cutoff): the best name, or Nil for [].
\* Only the word itself has ratio 1, so a word among the names is its own
\* best match whatever the cutoff.
GetCloseMatch(word, names, cutoffPct) ==
    IF word \in names THEN word
    ELSE LET cand == {x \in names : RatioAtLeast(x, word, cutoffPct)}
         IN  IF cand = {} THEN Nil
             ELSE CHOOSE x \in cand : \A y \in cand \ {x} : BetterMatch(x, y, word)

LoadCutoff == 60       \* cutoff=0.6 of load_kb_by_topic

(***************************************************************************)
(* The knowledge-base directory.  A directory is a function from the stems *)
(* of its <stem>.json files to their contents.  A content is either        *)
(* Corrupt (not JSON, or JSON whose root is no object) or a shape with the *)
(* ordered entries of its mapping:                                         *)
(*   "concepts"       {"concepts": {name: value, ...}}                     *)
(*   "concepts_list"  {"concepts_list": [{"name": name, ...}, ...]}        *)
(*   "bare"           {name: value, ...}                                   *)
(* The kind of a value is "obj" (a JSON object), "wrapped" (a list whose   *)
(* first element is an object) or "bad" (anything else).                   *)
(***************************************************************************)
Corrupt == [shape |-> "corrupt", items |-> <<>>]
Entry(n, k) == [name |-> n, kind |-> k]
File(shape, items) == [shape |-> shape, items |-> items]

Keys(items) == [i \in 1..Len(items) |-> items[i].name]
KeySet(items) == {items[i].name : i \in 1..Len(items)}
Range(seq) == {seq[i] : i \in 1..Len(seq)}
IndexOf(seq, x) == CHOOSE i \in 1..Len(seq) : seq[i] = x

\* A merge that loses the new entries, which C9 tells from dict.update.
DictUpdateKeepsOld(old, new) == old

\* dict.update: a key already present keeps its place and takes the new
\* value, a new key goes to the end.
RECURSIVE DictUpdate(_, _)
DictUpdate(old, new) ==
    IF new = <<>> THEN old
    ELSE LET e == Head(new)
             merged == IF e.name \in KeySet(old)
                       THEN [i \in 1..Len(old) |->
                               IF old[i].name = e.name THEN e ELSE old[i]]
                       ELSE Append(old, e)
         IN  DictUpdate(merged, Tail(new))

\* KnowledgeBase.scan_for_kbs: available_kbs[canonical name] = path, for
\* each file in the order os.listdir gives, which is arbitrary: of the files
\* with one canonical name, any one may be the last listed and stay.
ScanResults(dir) ==
    LET names == {CanonicalName(st) : st \in DOMAIN dir}
    IN  {f \in [names -> DOMAIN dir] : \A n \in names : CanonicalName(f[n]) = n}

\* A load that finds no concepts in any file, which C11 tells from
\* load_kb_by_topic.
LoadedNothing(content) == <<>>

\* The concepts mapping that load_kb_by_topic builds from a parsed file.
LoadedConcepts(content) ==
    IF content.shape = "concepts_list"
    THEN [i \in 1..Len(content.items) |-> Entry(content.items[i].name, "obj")]
    ELSE content.items

\* A load that drops the active collection whenever it fails, which C34
\* tells from the return of line 45.
LoadKbOrClear(kbv, dir, topic_name, readFault) ==
    LET matched == GetCloseMatch(topic_name, DOMAIN kbv.available_kbs, LoadCutoff)
    IN  IF matched = Nil
        THEN [kb |-> [kbv EXCEPT !.concepts = <<>>,
                                 !.current_kb_name = Nil,
                                 !.current_kb_path = Nil],
              loaded |-> FALSE, reason |-> "not_found"]
        ELSE LET path == kbv.available_kbs[matched]
             IN  IF readFault \/ path \notin DOMAIN dir \/ dir[path].shape = "corrupt"
                 THEN [kb |-> [kbv EXCEPT !.concepts = <<>>,
                                          !.current_kb_name = Nil,
                                          !.current_kb_path = Nil],
                       loaded |-> FALSE, reason |-> "load_error"]
                 ELSE [kb |-> [kbv EXCEPT !.concepts = LoadedConcepts(dir[path]),
                                          !.current_kb_name = matched,
                                          !.current_kb_path = path],
                       loaded |-> TRUE, reason |-> "loaded"]

\* KnowledgeBase.load_kb_by_topic on the knowledge base kbv: the new
\* knowledge base and the (loaded, reason) pair. readFault: open() raises.
LoadKbByTopic(kbv, dir, topic_name, readFault) ==
    LET matched == GetCloseMatch(topic_name, DOMAIN kbv.available_kbs, LoadCutoff)
    IN  IF matched = Nil
        THEN [kb |-> kbv, loaded |-> FALSE, reason |-> "not_found"]
        ELSE LET path == kbv.available_kbs[matched]
             IN  IF readFault \/ path \notin DOMAIN dir \/ dir[path].shape = "corrupt"
                 THEN [kb |-> [kbv EXCEPT !.concepts = <<>>,
                                          !.current_kb_name = Nil,
                                          !.current_kb_path = Nil],
                       loaded |-> FALSE, reason |-> "load_error"]
                 ELSE [kb |-> [kbv EXCEPT !.concepts = LoadedConcepts(dir[path]),
                                          !.current_kb_name = matched,
                                          !.current_kb_path = path],
                       loaded |-> TRUE, reason |-> "loaded"]

\* KnowledgeBase.get_concept: the concept, or None (here FALSE) when the id
\* is no key or its value is neither an object nor a list wrapping one.
GetConcept(concepts, id) ==
    \E i \in 1..Len(concepts) :
        concepts[i].name = id /\ concepts[i].kind \in {"obj", "wrapped"}

GetConceptKeys(concepts) == Keys(concepts)
IsLoaded(concepts) == concepts # <<>>

\* A save that reads nothing of the file it writes over, which C35 tells
\* from the merge of save_knowledge_base and add_concept_to_kb.
ExistingNothing(dir, stem) == <<>>

\* The existing concepts save_knowledge_base merges into.
ExistingConcepts(dir, stem) ==
    IF stem \notin DOMAIN dir \/ dir[stem].shape = "corrupt" THEN <<>>
    ELSE IF dir[stem].shape = "concepts" THEN dir[stem].items
    ELSE IF dir[stem].shape = "bare" THEN dir[stem].items
    ELSE \* a legacy list file is taken as a bare mapping with the one key
         <<Entry("concepts_list",
                 IF dir[stem].items # <<>> THEN "wrapped" ELSE "bad")>>

SaveFaults == {"none", "open_fails", "write_fails"}

\* save_knowledge_base(topic, concepts): the directory afterwards, whether
\* the call raised, and the stem of the path in its result string.
\* open_fails: an open() raises, nothing is written; write_fails: the file is
\* opened for writing (truncated) and the dump raises.
SaveKnowledgeBase(dir, topic, concepts, fault) ==
    LET stem == SanitizeFilename(topic)
        new == [i \in 1..Len(concepts) |-> Entry(concepts[i], "obj")]
        merged == DictUpdate(ExistingConcepts(dir, stem), new)
        put(c) == [st \in DOMAIN dir \cup {stem} |-> IF st = stem THEN c ELSE dir[st]]
    IN  IF fault = "open_fails" THEN [dir |-> dir, raised |-> TRUE, stem |-> stem]
        ELSE IF fault = "write_fails"
        THEN [dir |-> put(Corrupt), raised |-> TRUE, stem |-> stem]
        ELSE [dir |-> put(File("concepts", merged)), raised |-> FALSE, stem |-> stem]

(***************************************************************************)
(* AnalyticalPlanner.  The mastery map is a function from the ids that     *)
(* have an entry to mastery values.  The unit is fine enough that the      *)
(* products by 0.4, 0.15 and 0.85 of update_mastery and the steps of 0.2   *)
(* and 0.1 of the tutoring turns are whole numbers for as many calls as a  *)
(* run has: 5 * 20^5.                                                      *)
(***************************************************************************)
MasteryScale == 16000000
mastery_threshold == (3 * MasteryScale) \div 4

\* A profile that ignores what it is told to store, which C16 tells from
\* the assignment to knowledge_mastery.
MasteryKeep(m, id, v) == m

\* A profile that stores a value for every concept it knows, which C28 tells
\* from the assignment to one entry of knowledge_mastery.
MasterySetAll(m, id, v) == [k \in DOMAIN m \cup {id} |-> v]

MasteryGet(m, id, default) == IF id \in DOMAIN m THEN m[id] ELSE default
MasterySet(m, id, v) == [k \in DOMAIN m \cup {id} |-> IF k = id THEN v ELSE m[k]]

\* A planner that stays at the current concept, which C39 tells from the
\* forward scan of select_next_action.
SelectSameConcept(m, keys, current_concept_id) ==
    IF current_concept_id # None /\ current_concept_id \in {keys[i] : i \in 1..Len(keys)}
    THEN [action |-> "start_new", concept_id |-> current_concept_id]
    ELSE [action |-> "finish", concept_id |-> None]

\* A planner that picks the last concept below the threshold, which C5 and
\* C38 tell from select_next_action.
SelectLastUnmastered(m, keys, current_concept_id) ==
    LET open == {i \in 1..Len(keys) : MasteryGet(m, keys[i], 0) < mastery_threshold}
    IN  IF keys = <<>> \/ open = {}
        THEN [action |-> "finish", concept_id |-> None]
        ELSE [action |-> "start_new",
              concept_id |-> keys[CHOOSE i \in open : \A j \in open : i >= j]]

\* A planner that scans from the first concept whatever the current one
\* is, which C14 tells from select_next_action.
SelectFromStart(m, keys, current_concept_id) ==
    LET open == {i \in 1..Len(keys) : MasteryGet(m, keys[i], 0) < mastery_threshold}
    IN  IF keys = <<>> \/ open = {}
        THEN [action |-> "finish", concept_id |-> None]
        ELSE [action |-> "start_new",
              concept_id |-> keys[CHOOSE i \in open : \A j \in open : i <= j]]

\* select_next_action: [action, concept_id].
SelectNextAction(m, keys, current_concept_id) ==
    LET start_index == IF current_concept_id # None /\ current_concept_id \in Range(keys)
                       THEN IndexOf(keys, current_concept_id) + 1
                       ELSE 1
        open == {i \in start_index..Len(keys) : MasteryGet(m, keys[i], 0) < mastery_threshold}
    IN  IF keys = <<>> \/ open = {}
        THEN [action |-> "finish", concept_id |-> None]
        ELSE [action |-> "start_new",
              concept_id |-> keys[CHOOSE i \in open : \A j \in open : i <= j]]

(***************************************************************************)
(* ReviewManager (review_manager.py).  A card is its id, the concept it    *)
(* came from, its question and the number of reviews the scheduler has     *)
(* applied to its fsrs_data; the answer is never read.  The deck is the    *)
(* cards in memory (deck.cards, in insertion order), the deck file (absent,*)
(* the cards of the last complete write, or cut short by a failed write)   *)
(* and the number of ids made so far: uuid4 gives an id never seen before. *)
(***************************************************************************)
Questions == {"Q1", "Q2"}
Ratings == {"again", "hard", "good", "easy", "unknown"}
DeckFaults == {"none", "open_fails", "write_fails"}

MaxMinted == 3        \* cards made in one run of the review manager on its own
MaxReviews == 2       \* reviews of one card in one run

Flashcard(id, concept_id, question) ==
    [id |-> id, concept_id |-> concept_id, question |-> question, reviews |-> 0]

DeckFile(shape, cards) == [shape |-> shape, cards |-> cards]

EmptyDeck == [cards |-> <<>>, file |-> DeckFile("absent", <<>>), minted |-> 0]

\* _save_deck: open_fails leaves the file as it is, write_fails leaves it cut
\* short; both raise.
SaveDeck(d, fault) ==
    IF fault = "none" THEN [d EXCEPT !.file = DeckFile("deck", d.cards)]
    ELSE IF fault = "open_fails" THEN d
    ELSE [d EXCEPT !.file = DeckFile("corrupt", <<>>)]

HasQuestion(cards, question) == \E i \in 1..Len(cards) : cards[i].question = question
HasCard(cards, card_id) == \E i \in 1..Len(cards) : cards[i].id = card_id

\* The deck with a new card for the question, saved.
WithNewCard(d, concept_id, question, fault) ==
    SaveDeck([d EXCEPT !.cards = Append(@, Flashcard(d.minted + 1, concept_id, question)),
                       !.minted = @ + 1],
             fault)

\* An add_card that does not look for the question, which C17 tells from
\* add_card.
AddCardUnchecked(d, concept_id, question, fault) ==
    [deck |-> WithNewCard(d, concept_id, question, fault),
     returned |-> fault = "none", raised |-> fault # "none"]

\* add_card: the deck afterwards, whether a card was returned, whether the
\* call raised.
AddCard(d, concept_id, question, fault) ==
    IF HasQuestion(d.cards, question)
    THEN [deck |-> d, returned |-> FALSE, raised |-> FALSE]
    ELSE [deck |-> WithNewCard(d, concept_id, question, fault),
          returned |-> fault = "none", raised |-> fault # "none"]

\* delete_card
DeleteCard(d, card_id, fault) ==
    IF HasCard(d.cards, card_id)
    THEN [deck |-> SaveDeck([d EXCEPT !.cards = SelectSeq(@, LAMBDA c : c.id # card_id)],
                            fault),
          returned |-> fault = "none", raised |-> fault # "none"]
    ELSE [deck |-> d, returned |-> FALSE, raised |-> FALSE]

\* update_card_review
UpdateCardReview(d, card_id, user_rating, fault) ==
    IF ~HasCard(d.cards, card_id) \/ user_rating = "unknown"
    THEN [deck |-> d, returned |-> FALSE, raised |-> FALSE]
    ELSE [deck |-> SaveDeck([d EXCEPT !.cards =
                                [i \in 1..Len(@) |->
                                    IF @[i].id = card_id
                                    THEN [@[i] EXCEPT !.reviews = @ + 1]
                                    ELSE @[i]]],
                            fault),
          returned |-> FALSE, raised |-> fault # "none"]

(***************************************************************************)
(* The flashcard pipeline, _check_and_trigger_flashcard_creation           *)
(* (orchestrator.py:810-903).  The decision agent raises, gives nothing,   *)
(* gives a response whose .msg cannot be read, or a text with or without   *)
(* YES.  The generation agent raises, gives no content, gives text that is *)
(* no JSON, JSON whose root has no .get, an object without a list of cards *)
(* that is not empty, or an object with such a list.  A candidate of the   *)
(* list is an object with a question and an answer, an object that lacks   *)
(* one of them, an object whose question is no string (Flashcard refuses   *)
(* it), or no object at all.  The storage fails at most once during a run  *)
(* of the pipeline: at the save of the candidate at place `at`.            *)
(***************************************************************************)
MaxBatch == 2         \* longest list of candidate cards the generation agent returns

FlashDecisions == {"raise", "none", "no_msg", "NO", "YES"}

Candidate(kind, question) == [kind |-> kind, question |-> question]

Candidates ==
    {Candidate("card", q) : q \in Questions}
    \cup {Candidate(k, "") : k \in {"incomplete", "bad_type", "not_object"}}

Batches == UNION {[1..k -> Candidates] : k \in 1..MaxBatch}

FlashGenerations ==
    {[kind |-> k, cards |-> <<>>] :
        k \in {"raise", "no_content", "bad_json", "not_object", "no_cards"}}
    \cup {[kind |-> "cards", cards |-> b] : b \in Batches}

\* Lines 884-889: the count after add_card gave r.
Counted(r, n) == IF r.returned THEN n + 1 ELSE n

\* Lines 873-896 from the candidate at place i on, with n cards counted so
\* far: the deck afterwards and the number returned.  A candidate that is no
\* object raises at line 874, outside the try of line 878, and the handler
\* of line 901 returns 0.
RECURSIVE CreateCards(_, _, _, _, _, _, _)
CreateCards(d, concept_id, card_list, i, n, fault, at) ==
    IF i > Len(card_list) THEN [deck |-> d, returned |-> n]
    ELSE IF card_list[i].kind = "not_object" THEN [deck |-> d, returned |-> 0]
    ELSE IF card_list[i].kind \in {"incomplete", "bad_type"}
    THEN CreateCards(d, concept_id, card_list, i + 1, n, fault, at)
    ELSE CreateCards(AddCard(d, concept_id, card_list[i].question,
                             IF i = at THEN fault ELSE "none").deck,
                     concept_id, card_list, i + 1,
                     Counted(AddCard(d, concept_id, card_list[i].question,
                                     IF i = at THEN fault ELSE "none"), n),
                     fault, at)

\* What a run of the pipeline leaves for the record: the answers of the two
\* agents ("not_asked" for an agent that was not called) and the number
\* returned.
FlashRun(decision, generation, returned) ==
    [runs |-> 1, decision |-> decision, generation |-> generation,
     returned |-> returned]

\* The pipeline was not called (line 711).
NoFlashRun ==
    [runs |-> 0, decision |-> "not_asked", generation |-> "not_asked",
     returned |-> 0]

\* A pipeline that goes on to the generator whatever the decision agent
\* said, which C29 tells from the test of line 832.
GenerateWithoutDecision(d, ptr, conversation_snippet, decision, generation, fault, at) ==
    IF generation.kind # "cards"
    THEN [deck |-> d, run |-> FlashRun(decision, generation.kind, 0)]
    ELSE [deck |-> CreateCards(d, IF ptr = None THEN "from_conversation" ELSE ptr,
                               generation.cards, 1, 0, fault, at).deck,
          run |-> FlashRun(decision, generation.kind,
                           CreateCards(d, IF ptr = None THEN "from_conversation" ELSE ptr,
                                       generation.cards, 1, 0, fault, at).returned)]

\* _check_and_trigger_flashcard_creation(conversation_snippet): the deck
\* afterwards and the record of the run.
CheckAndTriggerFlashcardCreation(d, ptr, conversation_snippet, decision, generation, fault, at) ==
    IF Len(conversation_snippet) < 2
    THEN [deck |-> d, run |-> FlashRun("not_asked", "not_asked", 0)]
    ELSE IF conversation_snippet[Len(conversation_snippet)] # "user"
    THEN [deck |-> d, run |-> FlashRun("not_asked", "not_asked", 0)]
    ELSE IF decision # "YES"
    THEN [deck |-> d, run |-> FlashRun(decision, "not_asked", 0)]
    ELSE IF generation.kind # "cards"
    THEN [deck |-> d, run |-> FlashRun(decision, generation.kind, 0)]
    ELSE [deck |-> CreateCards(d, IF ptr = None THEN "from_conversation" ELSE ptr,
                               generation.cards, 1, 0, fault, at).deck,
          run |-> FlashRun(decision, generation.kind,
                           CreateCards(d, IF ptr = None THEN "from_conversation" ELSE ptr,
                                       generation.cards, 1, 0, fault, at).returned)]

\* history[-2:]
LastTwo(h) == IF Len(h) <= 2 THEN h ELSE SubSeq(h, Len(h) - 1, Len(h))

\* Lines 710-719: card_notification, as the parts of the reply it makes.
CardNotification(cards_created_count) ==
    IF cards_created_count = 1 THEN <<"one_card_notification">>
    ELSE IF cards_created_count > 1 THEN <<"cards_notification">>
    ELSE <<>>

(***************************************************************************)
(* The orchestrator's state (IntelligentTutorAgent.__init__).              *)
(***************************************************************************)
VARIABLES
    state,               \* self.state
    learning_blueprint,  \* self.learning_blueprint
    uploaded_material,   \* self.uploaded_material
    knowledge_base,      \* self.knowledge_base: available_kbs, concepts, current_kb_name/path
    current_concept_id,  \* self.current_concept_id
    knowledge_mastery,   \* self.user_profile.knowledge_mastery
    dir,                 \* the files of the knowledge_bases directory
    pc,                  \* where the running call is: "idle" between calls
    gen,                 \* the locals of _generate_kb_and_start while it runs
    last,                \* what the last finished call did (observation only)
    turns,               \* the calls of entry points so far (bounds the run)
    deck,                \* self.review_manager: the cards in memory and the deck file
    history,             \* self.history: the roles of its entries, oldest first
    tut,                 \* the locals of _handle_tutoring while it runs
    writers              \* the calls of save_knowledge_base / add_concept_to_kb under way

vars == <<state, learning_blueprint, uploaded_material, knowledge_base,
          current_concept_id, knowledge_mastery, dir, pc, gen, last, turns, deck,
          history, tut, writers>>

TutorState == {"IDLE", "ANALYZING_GOAL", "GENERATING_KB", "TUTORING",
               "AWAITING_PLAN_CONFIRMATION"}

InitialBlueprint ==
    [status |-> "incomplete", topic |-> Nil, sub_topics |-> <<>>,
     current_level |-> "unknown", learning_style |-> "unknown"]

(***************************************************************************)
(* The inputs of a turn.                                                   *)
(***************************************************************************)
\* Duplicate-free sequences over S of length at most n.
SeqsUpTo(S, n) ==
    UNION {{q \in [1..k -> S] : \A i, j \in 1..k : i # j => q[i] # q[j]} : k \in 0..n}

Topics == {<<"a", " ", "a">>, <<"?">>}
\* The code reads sub_topics only by membership: one list for each set.
IdRank(id) == IF id = "A" THEN 1 ELSE 2
SubTopicLists == {q \in SeqsUpTo(ConceptIds, MaxSubTopics) :
                    \A i, j \in 1..Len(q) : i < j => IdRank(q[i]) < IdRank(q[j])}
ConceptLists == SeqsUpTo(ConceptIds, MaxConcepts)

\* The text handed to set_uploaded_material: some material that is not empty.
Materials == {"text"}

Absent == "Absent"          \* a key the JSON object does not have (an atom)
AbsentList == <<"Absent">>  \* the same, for a key whose values are strings or lists

\* The learning_blueprint of the content analyzer's JSON.
AnalyzerBlueprints ==
    {[status |-> "pending_confirmation", topic |-> t, sub_topics |-> subs,
      current_level |-> "unknown", learning_style |-> "unknown"] :
        t \in Topics \cup {Nil}, subs \in SubTopicLists}

\* The JSON object of the goal elicitor.  It may hold any of the keys; the
\* objects here hold one of status, topic and sub_topics, so that several
\* turns build what one object with several keys would.
NoUpdate ==
    [status |-> Absent, topic |-> AbsentList, sub_topics |-> AbsentList,
     current_level |-> Absent, learning_style |-> Absent]

ElicitorUpdates ==
    {[NoUpdate EXCEPT !.status = st] : st \in {"incomplete", "complete"}}
    \cup {[NoUpdate EXCEPT !.topic = t] : t \in Topics \cup {Nil}}
    \cup {[NoUpdate EXCEPT !.sub_topics = subs] : subs \in SubTopicLists}

\* A blueprint that takes nothing from the JSON object, which C20 tells from
\* dict.update.
BlueprintKeep(bp, upd) == bp

\* dict.update(analysis_json)
BlueprintUpdate(bp, upd) ==
    [k \in DOMAIN bp |->
        IF k \in {"topic", "sub_topics"}
        THEN (IF upd[k] = AbsentList THEN bp[k] ELSE upd[k])
        ELSE (IF upd[k] = Absent THEN bp[k] ELSE upd[k])]

\* The answers of the content analyzer: the call raises; the response has
\* no single message (.msg raises); text that is no JSON object with a
\* learning_blueprint; or such an object.
AnalyzerAnswers ==
    {[kind |-> k, blueprint |-> InitialBlueprint] : k \in {"raise", "no_msg", "unparsable"}}
    \cup {[kind |-> "blueprint", blueprint |-> b] : b \in AnalyzerBlueprints}

\* The answers of the goal elicitor.
ElicitorAnswers ==
    {[kind |-> k, update |-> NoUpdate] : k \in {"raise", "no_msgs", "unparsable"}}
    \cup {[kind |-> "json", update |-> u] : u \in ElicitorUpdates}

\* The answers of the intent classifier: raise, nothing, text that is no
\* JSON, or a JSON object with that "intent".
ClassifierAnswers == {"raise", "no_msgs", "unparsable", "confirm", "reject", "unclear", "other"}

\* The answers of the knowledge-base generator: the call raises; a response
\* without messages; a KnowledgeBaseModel object; a string that is the JSON
\* of one; a string with the JSON of one between other text; a string whose
\* brace block does not validate; a string without braces; another type.
GenResponses ==
    {[kind |-> k, concepts |-> <<>>] :
        k \in {"raise", "no_msgs", "text_bad_json", "text_no_json", "other_type"}}
    \cup {[kind |-> k, concepts |-> c] :
            k \in {"object", "json_text", "text_with_json"}, c \in ConceptLists}

ResponseStrategy ==
    {"answer_question", "progress_to_next_concept", "review_and_clarify",
     "socratic_guidance", "consolidate_and_verify", "handle_irrelevance",
     "follow_user_lead", "acknowledge_and_wait"}

\* The answers of the strategist: raise, nothing, text that is no JSON, JSON
\* that does not validate, or a decision with that strategy.
StrategistAnswers == {"raise", "no_msgs", "unparsable", "invalid"} \cup ResponseStrategy

\* The directories the program may find when it starts.
InitialDirs ==
    { <<>>,
      [st \in {<<"a", "_", "a">>} |-> File("concepts", <<Entry("B", "obj")>>)],
      [st \in {<<"a", "_", "a">>} |-> Corrupt],
      [st \in {<<"a", " ", "a">>} |-> File("bare", <<Entry("A", "bad")>>)] }

NoGen == [running |-> FALSE]

\* What a handler read from its service: nothing on record, the kind of the
\* content analyzer's answer, the JSON object of the goal elicitor, or the
\* answer of the intent classifier with what the user typed.
NoAnswer == [service |-> "none"]
AnalyzerSaid(kind) == [service |-> "analyzer", kind |-> kind]
ElicitorSaid(update) == [service |-> "elicitor", update |-> update]
ClassifierSaid(c, user_response) ==
    [service |-> "classifier", classifier |-> c, user_response |-> user_response]
StrategistSaid(s) == [service |-> "strategist", strategist |-> s]

NoCall ==
    [call |-> "none", handler |-> "none", fault |-> "none", raised |-> FALSE,
     reply |-> None, gen_calls |-> 0, saves |-> 0, stored |-> <<>>, verdicts |-> <<>>,
     answer |-> NoAnswer, cards_created_count |-> 0, final_response |-> <<>>]

\* No call of _handle_tutoring is running.
NoTut == [running |-> FALSE]

\* No call of the storage tools is under way.
NoWriters == <<>>

Init ==
    /\ state = "IDLE"
    /\ learning_blueprint = InitialBlueprint
    /\ uploaded_material = None
    /\ dir \in InitialDirs
    /\ \E avail \in ScanResults(dir) :
          knowledge_base = [available_kbs |-> avail, concepts |-> <<>>,
                            current_kb_name |-> Nil, current_kb_path |-> Nil]
    /\ current_concept_id = None
    /\ knowledge_mastery = <<>>
    /\ pc = "idle"
    /\ gen = NoGen
    /\ last = NoCall
    /\ turns = 0
    /\ deck = EmptyDeck
    /\ history = <<>>
    /\ tut = NoTut
    /\ writers = NoWriters

(***************************************************************************)
(* The end of a call of an entry point: the values it leaves, and the      *)
(* record of what it did.  A call that ends by an exception leaves the     *)
(* values assigned before the exception and gives no reply.  fault is the  *)
(* failure that ended the call's work: of an external service, of the      *)
(* storage, or of a concept lookup.                                        *)
(***************************************************************************)
Obs(call, handler, fault, raised, reply) ==
    [call |-> call, handler |-> handler, fault |-> fault, raised |-> raised,
     reply |-> reply, gen_calls |-> 0, saves |-> 0, stored |-> <<>>,
     verdicts |-> <<>>,
     answer |-> NoAnswer, cards_created_count |-> 0, final_response |-> <<>>]

\* The record of a call whose handler read that answer of its service.
Answered(obs, answer) == [obs EXCEPT !.answer = answer]

\* stored: what became of each save_knowledge_base of the call, in order: it
\* raised, its result named no file, the reload failed, or the reload
\* succeeded.
GenObs(fault, raised, reply, stored, verdicts) ==
    [call |-> gen.call, handler |-> gen.handler, fault |-> fault, raised |-> raised,
     reply |-> reply, gen_calls |-> gen.attempt + 1, saves |-> Len(stored),
     stored |-> stored,
     verdicts |-> verdicts, answer |-> NoAnswer, cards_created_count |-> 0,
     final_response |-> <<>>]

\* _add_to_history (orchestrator.py:905-911): an entry is kept by its role.
AddToHistory(h, role) == Append(h, role)

\* The replies that are returned without _add_to_history: the two of the
\* content analysis (lines 402-403, 409), the one of a tutoring turn whose
\* concept is not found (725) and the empty one of step (366, 380).
UnrecordedReplies == {"analysis_failed", "plan_summary", "concept_missing", ""}

\* The history after the return that obs records, from the history h before
\* it: every other reply is added as the assistant's just before the return.
HistoryAtReturn(h, obs) ==
    IF obs.raised \/ obs.reply \in UnrecordedReplies THEN h
    ELSE AddToHistory(h, "assistant")

\* A return that leaves the stored material as the call found it, which C19
\* tells from the assignments to uploaded_material.
ReturnKeepsMaterial(st, bp, mat, kbv, ptr, m, d, obs) ==
    /\ state' = st
    /\ learning_blueprint' = bp
    /\ uploaded_material' = uploaded_material
    /\ knowledge_base' = kbv
    /\ current_concept_id' = ptr
    /\ knowledge_mastery' = m
    /\ dir' = d
    /\ pc' = "idle"
    /\ gen' = NoGen
    /\ last' = obs
    /\ history' = HistoryAtReturn(history, obs)

\* The return of a call that had brought the history to h.
ReturnWithHistory(st, bp, mat, kbv, ptr, m, d, h, obs) ==
    /\ state' = st
    /\ learning_blueprint' = bp
    /\ uploaded_material' = mat
    /\ knowledge_base' = kbv
    /\ current_concept_id' = ptr
    /\ knowledge_mastery' = m
    /\ dir' = d
    /\ pc' = "idle"
    /\ gen' = NoGen
    /\ last' = obs
    /\ history' = HistoryAtReturn(h, obs)

Return(st, bp, mat, kbv, ptr, m, d, obs) ==
    ReturnWithHistory(st, bp, mat, kbv, ptr, m, d, history, obs)

(***************************************************************************)
(* _start_tutoring_session_from_loaded_kb (orchestrator.py:654-700).       *)
(***************************************************************************)
\* A start that takes the session for begun where the pointer is, which
\* C37 tells from lines 682-690.
StartWhereThePointerIs(kbv, m, ptr) ==
    IF ~IsLoaded(kbv.concepts)
    THEN [state |-> "IDLE", ptr |-> ptr, reply |-> "kb_not_loaded"]
    ELSE [state |-> "TUTORING", ptr |-> ptr, reply |-> "first_question"]

StartTutoringSessionFromLoadedKb(kbv, m, ptr) ==
    IF ~IsLoaded(kbv.concepts)
    THEN [state |-> "IDLE", ptr |-> ptr, reply |-> "kb_not_loaded"]
    ELSE IF GetConceptKeys(kbv.concepts) = <<>>
    THEN [state |-> "IDLE", ptr |-> ptr, reply |-> "kb_without_concepts"]
    ELSE LET next_action == SelectNextAction(m, GetConceptKeys(kbv.concepts), None)
         IN  IF next_action.action = "finish"
             THEN [state |-> "IDLE", ptr |-> ptr, reply |-> "all_mastered"]
             ELSE IF ~GetConcept(kbv.concepts, next_action.concept_id)
             THEN [state |-> "IDLE", ptr |-> next_action.concept_id,
                   reply |-> "concept_unloadable"]
             ELSE [state |-> "TUTORING", ptr |-> next_action.concept_id,
                   reply |-> "first_question"]

(***************************************************************************)
(* _generate_kb_and_start (orchestrator.py:490-638).                       *)
(***************************************************************************)
\* One attempt more than the loop makes, which C6 tells from max_retries.
three_attempts == 2 + 1

max_retries == 2

Falsy(str) == str = Nil \/ str = <<>>

\* Lines 521-549: the KnowledgeBaseModel got from a response (its concept
\* names in order), or Nil.
ParseKbModel(r) ==
    IF r.kind \in {"object", "json_text", "text_with_json"} THEN r.concepts ELSE Nil

\* A validation without the semantic check, which C7 tells from the code's.
ValidationPassedSyntaxOnly(bp, kb_model) == kb_model # Nil

\* A validation that is content with one requested sub-topic, which C8 tells
\* from the code's.
ValidationPassedAnyRequested(bp, kb_model) ==
    /\ kb_model # Nil
    /\ IF bp.sub_topics = <<>>
       THEN kb_model # <<>>
       ELSE \E t \in Range(bp.sub_topics) : t \in Range(kb_model)

\* Lines 552-569: validation_passed.
ValidationPassed(bp, kb_model) ==
    /\ kb_model # Nil
    /\ IF bp.sub_topics = <<>>
       THEN kb_model # <<>>
       ELSE {t \in Range(bp.sub_topics) : t \notin Range(kb_model)} = {}

\* Line 600: re.search(r"knowledge_bases[\\/]([^\\/]+\.json)", save_result)
\* finds <stem>.json when the stem is not empty; Nil for no match.
SavedFilenameStem(stem) == IF stem = <<>> THEN Nil ELSE stem

\* What an attempt's answer is, for the record of the call: no model at all,
\* a model that lacks a requested sub-topic, a model without concepts when
\* none was requested, or a model that has what was asked for.
Verdict(bp, kb_model) ==
    IF kb_model = Nil THEN "unparsed"
    ELSE IF \E i \in 1..Len(bp.sub_topics) : bp.sub_topics[i] \notin Range(kb_model)
    THEN "incomplete"
    ELSE IF bp.sub_topics = <<>> /\ kb_model = <<>> THEN "empty"
    ELSE "complete"

\* Lines 493-498, entered with self.state already GENERATING_KB and the
\* blueprint bp.  entry_state and entry_dir keep the dialogue state and the
\* directory the call found when it started, and last is empty while the
\* call runs; h is the history its handler had brought about.
GenerateKbAndStart(call, handler, bp, mat, answer, h) ==
    IF Falsy(bp.topic)
    THEN ReturnWithHistory("ANALYZING_GOAL", bp, mat, knowledge_base,
                           current_concept_id, knowledge_mastery, dir, h,
                           Answered(Obs(call, handler, "none", FALSE, "no_topic_error"),
                                    answer))
    ELSE /\ state' = "GENERATING_KB"
         /\ learning_blueprint' = bp
         /\ uploaded_material' = mat
         /\ history' = h
         /\ pc' = "call_generator"
         /\ gen' = [running |-> TRUE, call |-> call, handler |-> handler,
                    attempt |-> 0, kb_model |-> Nil, saves |-> 0, stored |-> <<>>,
                    verdicts |-> <<>>, entry_state |-> state, entry_dir |-> dir]
         /\ last' = NoCall
         /\ UNCHANGED <<knowledge_base, current_concept_id, knowledge_mastery, dir>>

\* Lines 501-549 of one attempt: the request to the generator, which
\* nothing guards, and the parsing of its answer.
CallGenerator ==
    /\ pc = "call_generator"
    /\ UNCHANGED <<turns, deck, tut, writers>>
    /\ \E r \in GenResponses :
        IF r.kind = "raise"
        THEN Return(state, learning_blueprint, uploaded_material, knowledge_base,
                    current_concept_id, knowledge_mastery, dir,
                    GenObs("service", TRUE, None, gen.stored, gen.verdicts))
        ELSE /\ pc' = "validate"
             /\ gen' = [gen EXCEPT !.kb_model = ParseKbModel(r)]
             /\ UNCHANGED <<state, learning_blueprint, uploaded_material,
                            knowledge_base, current_concept_id, knowledge_mastery,
                            dir, last, history>>

\* The loop goes on with the next attempt (continue at lines 590 and 629),
\* with the directory d and the record of this attempt.
NextAttempt(d, stored, verdicts) ==
    /\ pc' = "call_generator"
    /\ gen' = [gen EXCEPT !.attempt = gen.attempt + 1, !.kb_model = Nil,
                          !.saves = Len(stored), !.stored = stored,
                          !.verdicts = verdicts]
    /\ dir' = d
    /\ UNCHANGED <<state, learning_blueprint, uploaded_material, knowledge_base,
                   current_concept_id, knowledge_mastery, last, history>>

\* The end of a call inside the loop, in dialogue state st with the
\* knowledge base kbv, the pointer ptr and the directory d.
ReturnFromLoop(st, kbv, ptr, d, obs) ==
    Return(st, learning_blueprint, uploaded_material, kbv, ptr, knowledge_mastery,
           d, obs)

\* Lines 626-634: another attempt, or giving up.
RetryOrGiveUp(d, stored, verdicts) ==
    IF gen.attempt < max_retries - 1
    THEN NextAttempt(d, stored, verdicts)
    ELSE ReturnFromLoop("ANALYZING_GOAL", knowledge_base, current_concept_id, d,
                        GenObs("none", FALSE, "generation_failed", stored, verdicts))

\* A loop that takes a reload for one more failed attempt, which C25 tells
\* from lines 610-620.
StartOrRetryReload(ld, d, stored, verdicts) ==
    RetryOrGiveUp(d, Append(stored, IF ld.loaded THEN "reloaded" ELSE "reload_failed"),
                  verdicts)

\* Lines 610-620: the session starts on the reloaded knowledge base, or the
\* reload failed; ld is what load_kb_by_topic gave.
StartOrReportReload(ld, d, stored, verdicts) ==
    IF ld.loaded
    THEN \E start \in {StartTutoringSessionFromLoadedKb(ld.kb, knowledge_mastery,
                                                        current_concept_id)} :
            ReturnFromLoop(start.state, ld.kb, start.ptr, d,
                           GenObs(IF start.reply = "concept_unloadable"
                                  THEN "lookup" ELSE "none",
                                  FALSE, start.reply, Append(stored, "reloaded"),
                                  verdicts))
    ELSE ReturnFromLoop("ANALYZING_GOAL", ld.kb, current_concept_id, d,
                        GenObs("storage", FALSE, "reload_error",
                               Append(stored, "reload_failed"), verdicts))

\* A loop that has no reply of its own for a save that raised, which C26
\* tells from lines 585-595.
AfterSaveUnreported(sv, stored, verdicts) ==
    RetryOrGiveUp(sv.dir, Append(stored, IF sv.raised THEN "raised" ELSE "unnamed"),
                  verdicts)

\* Lines 585-624: after save_knowledge_base, which gave sv.
AfterSave(sv, stored, verdicts) ==
    IF sv.raised
    THEN \* lines 585-595
         IF gen.attempt < max_retries - 1
         THEN NextAttempt(sv.dir, Append(stored, "raised"), verdicts)
         ELSE ReturnFromLoop("ANALYZING_GOAL", knowledge_base, current_concept_id,
                             sv.dir,
                             GenObs("storage", FALSE, "save_error",
                                    Append(stored, "raised"), verdicts))
    ELSE IF SavedFilenameStem(sv.stem) = Nil
    THEN RetryOrGiveUp(sv.dir, Append(stored, "unnamed"), verdicts)
    ELSE \* lines 603-620: rescan, reload by the canonical name
         \E avail \in ScanResults(sv.dir), readFault \in BOOLEAN :
            StartOrReportReload(
                LoadKbByTopic([knowledge_base EXCEPT !.available_kbs = avail], sv.dir,
                              CanonicalName(SavedFilenameStem(sv.stem)), readFault),
                sv.dir, stored, verdicts)

\* Lines 551-634 of one attempt: validation, then save, reload and start, or
\* the next attempt, or giving up; verdicts is the record with this attempt.
ValidateAndActWith(verdicts) ==
    IF ~ValidationPassed(learning_blueprint, gen.kb_model)
    THEN RetryOrGiveUp(dir, gen.stored, verdicts)
    ELSE \E fault \in SaveFaults :
            AfterSave(SaveKnowledgeBase(dir, learning_blueprint.topic, gen.kb_model,
                                        fault),
                      gen.stored, verdicts)

ValidateAndAct ==
    /\ pc = "validate"
    /\ UNCHANGED <<turns, deck, tut, writers>>
    /\ ValidateAndActWith(Append(gen.verdicts,
                                 Verdict(learning_blueprint, gen.kb_model)))

(***************************************************************************)
(* _handle_goal_analysis (orchestrator.py:382-450), with the material mat  *)
(* that self.uploaded_material holds when it is entered.                   *)
(***************************************************************************)
HandleGoalAnalysis(call, user_response, mat) ==
    LET h == "goal_analysis"
        bp == learning_blueprint
        kbv == knowledge_base
        ptr == current_concept_id
        m == knowledge_mastery
    IN
    IF user_response = "trigger"
    THEN \* lines 384-392: the list of knowledge bases
         Return(state, bp, mat, kbv, ptr, m, dir,
                Obs(call, h, "none", FALSE,
                    IF DOMAIN kbv.available_kbs # {} THEN "kb_list" ELSE "kb_list_empty"))
    ELSE IF mat \notin {None, ""}
    THEN \* lines 395-410: content analysis of the uploaded material
         \E a \in AnalyzerAnswers :
            CASE a.kind = "raise" ->
                    Return(state, bp, mat, kbv, ptr, m, dir,
                           Answered(Obs(call, h, "service", TRUE, None),
                                    AnalyzerSaid(a.kind)))
              [] a.kind = "no_msg" ->
                    Return(state, bp, None, kbv, ptr, m, dir,
                           Answered(Obs(call, h, "service", TRUE, None),
                                    AnalyzerSaid(a.kind)))
              [] a.kind = "unparsable" ->
                    Return(state, bp, None, kbv, ptr, m, dir,
                           Answered(Obs(call, h, "none", FALSE, "analysis_failed"),
                                    AnalyzerSaid(a.kind)))
              [] a.kind = "blueprint" ->
                    Return("AWAITING_PLAN_CONFIRMATION", a.blueprint, None, kbv, ptr, m,
                           dir, Answered(Obs(call, h, "none", FALSE, "plan_summary"),
                                         AnalyzerSaid(a.kind)))
    ELSE \* lines 412-450: conversational elicitation
         \E e \in ElicitorAnswers :
            CASE e.kind = "raise" ->
                    Return(state, bp, mat, kbv, ptr, m, dir,
                           Obs(call, h, "service", TRUE, None))
              [] e.kind = "no_msgs" ->
                    Return(state, bp, mat, kbv, ptr, m, dir,
                           Obs(call, h, "service", FALSE, "elicitation_apology"))
              [] e.kind = "unparsable" ->
                    Return(state, bp, mat, kbv, ptr, m, dir,
                           Obs(call, h, "none", FALSE, "raw_text"))
              [] e.kind = "json" ->
                    LET bp2 == BlueprintUpdate(bp, e.update)
                    IN  IF bp2.status = "complete"
                        THEN GenerateKbAndStart(call, h, bp2, mat, ElicitorSaid(e.update),
                                                history)
                        ELSE Return(state, bp2, mat, kbv, ptr, m, dir,
                                    Answered(Obs(call, h, "none", FALSE, "next_question"),
                                             ElicitorSaid(e.update)))

(***************************************************************************)
(* _handle_plan_confirmation (orchestrator.py:452-488).                    *)
(***************************************************************************)
\* An intent that is never made out, which C18 tells from the intent of
\* lines 459-468.
IntentUnclear(answer, user_response) == "unclear"

\* Lines 459-468: the intent.
Intent(answer, user_response) ==
    IF answer = "no_msgs"
    THEN IF user_response = "negate" THEN "reject"
         ELSE IF user_response = "affirm" THEN "confirm"
         ELSE "unclear"
    ELSE IF answer = "unparsable" THEN "unclear"
    ELSE answer

HandlePlanConfirmation(call, user_response) ==
    LET h == "plan_confirmation"
        bp == learning_blueprint
        mat == uploaded_material
        kbv == knowledge_base
        ptr == current_concept_id
        m == knowledge_mastery
    IN
    \E c \in ClassifierAnswers :
        IF c = "raise"
        THEN Return(state, bp, mat, kbv, ptr, m, dir,
                    Obs(call, h, "service", TRUE, None))
        ELSE IF Intent(c, user_response) = "confirm"
        THEN \* line 474 tells the user that the generation starts
             GenerateKbAndStart(call, h, [bp EXCEPT !.status = "complete"], mat,
                                ClassifierSaid(c, user_response),
                                AddToHistory(history, "assistant"))
        ELSE IF Intent(c, user_response) = "reject"
        THEN Return("ANALYZING_GOAL", InitialBlueprint, mat, kbv, ptr, m, dir,
                    Answered(Obs(call, h, "none", FALSE, "plan_rejected"),
                             ClassifierSaid(c, user_response)))
        ELSE Return(state, bp, mat, kbv, ptr, m, dir,
                    Answered(Obs(call, h, "none", FALSE, "clarify_intent"),
                             ClassifierSaid(c, user_response)))

(***************************************************************************)
(* _handle_tutoring (orchestrator.py:702-808), in two steps: the user's    *)
(* entry in the history and the flashcard pipeline (707-719), then the     *)
(* lookup of the current concept, the request to the strategist and the    *)
(* dispatch on its decision (722-808).  tut keeps the count of cards and   *)
(* the record of the pipeline between the two, and last is empty then.     *)
(***************************************************************************)
\* No upper limit, which C12 tells from min(1.0, ...).
Unlimited(x, y) == y

Max2(x, y) == IF x >= y THEN x ELSE y
Min2(x, y) == IF x <= y THEN x ELSE y

\* Lines 707-719 after the pipeline: h is the history with the user's entry,
\* r what the pipeline gave (the deck and the record of the run).  For the
\* second step, tut also tells how many cards the deck gained in the first
\* and whether the deck file is another.
AfterFlashcards(call, h, r) ==
    /\ history' = h
    /\ deck' = r.deck
    /\ tut' = [running |-> TRUE, call |-> call,
               cards_created_count |-> r.run.returned, flash |-> r.run,
               added |-> Len(r.deck.cards) - Len(deck.cards),
               file_changed |-> r.deck.file # deck.file]
    /\ pc' = "strategist"
    /\ last' = NoCall
    /\ UNCHANGED <<state, learning_blueprint, uploaded_material, knowledge_base,
                   current_concept_id, knowledge_mastery, dir, gen, writers>>

\* Lines 707-719 with the history h that line 707 makes, the decision agent
\* giving one of those answers.
AppendAndCheckFlashcards(call, h, decisions) ==
    IF Len(h) < 2
    THEN AfterFlashcards(call, h, [deck |-> deck, run |-> NoFlashRun])
    ELSE \E decision \in decisions :
            IF decision # "YES"
            THEN AfterFlashcards(call, h,
                    CheckAndTriggerFlashcardCreation(deck, current_concept_id, LastTwo(h),
                                                     decision, [kind |-> "raise",
                                                                cards |-> <<>>],
                                                     "none", 0))
            ELSE \E generation \in FlashGenerations :
                    \E fault \in DeckFaults :
                        \E at \in (IF fault = "none" THEN {0}
                                   ELSE 1..Len(generation.cards)) :
                            AfterFlashcards(call, h,
                                CheckAndTriggerFlashcardCreation(
                                    deck, current_concept_id, LastTwo(h), decision,
                                    generation, fault, at))

\* The record of a tutoring turn with the count of the pipeline and the
\* parts of final_response (line 805), for a return of line 808.
Replied(obs, cards_created_count, final_response) ==
    [obs EXCEPT !.cards_created_count = cards_created_count,
                !.final_response = final_response]

\* A strategist whose every failure is taken for a decision to review, which
\* C21 tells from lines 749-768.
DecisionOrReview(s) == IF s \in ResponseStrategy THEN s ELSE "review_and_clarify"

\* Lines 743-768: the decision, or None when the request raised, gave
\* nothing, or gave what is no valid decision.
Decision(s) == IF s \in ResponseStrategy THEN s ELSE None

\* An update by steps of 0.1, which C27 tells from lines 800 and 802.
MasteryAfterByTenth(m, ptr, strategy) ==
    IF strategy = "review_and_clarify"
    THEN MasterySet(m, ptr, Max2(0, MasteryGet(m, ptr, MasteryScale \div 10)
                                        - MasteryScale \div 10))
    ELSE IF strategy \in {"consolidate_and_verify", "socratic_guidance"}
    THEN MasterySet(m, ptr, Min2(MasteryScale, MasteryGet(m, ptr, 0)
                                                   + MasteryScale \div 10))
    ELSE m

\* Lines 798-802: the mastery map after the update for the strategy.
MasteryAfter(m, ptr, strategy) ==
    IF strategy = "review_and_clarify"
    THEN MasterySet(m, ptr, Max2(0, MasteryGet(m, ptr, MasteryScale \div 10)
                                        - MasteryScale \div 5))
    ELSE IF strategy \in {"consolidate_and_verify", "socratic_guidance"}
    THEN MasterySet(m, ptr, Min2(MasteryScale, MasteryGet(m, ptr, 0)
                                                   + MasteryScale \div 5))
    ELSE m

\* Lines 722-808, with the count n of the pipeline.
HandleTutoring(call, n) ==
    LET h == "tutoring"
        bp == learning_blueprint
        mat == uploaded_material
        kbv == knowledge_base
        ptr == current_concept_id
        m == knowledge_mastery
    IN
    IF ~GetConcept(kbv.concepts, ptr)
    THEN \* lines 722-725
         Return("IDLE", bp, mat, kbv, ptr, m, dir,
                Replied(Obs(call, h, "lookup", FALSE, "concept_missing"), n, <<>>))
    ELSE
    \E s \in StrategistAnswers :
        IF Decision(s) = None
        THEN \* lines 763-768: the fallback
             Return(state, bp, mat, kbv, ptr, m, dir,
                    Replied(Answered(Obs(call, h, "service", FALSE, "apology"),
                                     StrategistSaid(s)), n, <<>>))
        ELSE IF Decision(s) = "progress_to_next_concept"
        THEN \* lines 782-796
             LET m1 == MasterySet(m, ptr, MasteryScale)
                 plan == SelectNextAction(m1, GetConceptKeys(kbv.concepts), ptr)
             IN  IF plan.action = "finish"
                 THEN Return("IDLE", bp, mat, kbv, ptr, m1, dir,
                             Replied(Answered(Obs(call, h, "none", FALSE,
                                                  "session_complete"),
                                              StrategistSaid(s)),
                                     n, CardNotification(n) \o <<"completion_message">>))
                 ELSE IF ~GetConcept(kbv.concepts, plan.concept_id)
                 THEN \* next_concept_info is None: .get raises AttributeError
                      Return(state, bp, mat, kbv, plan.concept_id, m1, dir,
                             Replied(Answered(Obs(call, h, "lookup", TRUE, None),
                                              StrategistSaid(s)), n, <<>>))
                 ELSE Return(state, bp, mat, kbv, plan.concept_id, m1, dir,
                             Replied(Answered(Obs(call, h, "none", FALSE, "next_concept"),
                                              StrategistSaid(s)),
                                     n, CardNotification(n)
                                            \o <<"action_content", "next_concept_question">>))
        ELSE \* lines 774-780, 798-808
             Return(state, bp, mat, kbv, ptr, MasteryAfter(m, ptr, Decision(s)), dir,
                    Replied(Answered(Obs(call, h, "none", FALSE, "action_content"),
                                     StrategistSaid(s)),
                            n, CardNotification(n) \o <<"action_content">>))

(***************************************************************************)
(* The entry points: step (orchestrator.py:360-380), one action for each   *)
(* branch of its dispatch, and set_uploaded_material (350-358).  What the  *)
(* user typed is a text with one of the list_kb_triggers, with a confirm   *)
(* keyword, with a reject keyword, or with none of them.                   *)
(***************************************************************************)
StepGoalAnalysis ==
    /\ pc = "idle"
    /\ turns < MaxTurns
    /\ turns' = turns + 1
    /\ UNCHANGED <<deck, tut, writers>>
    /\ state \in {"IDLE", "ANALYZING_GOAL"}
    /\ \E u \in {"trigger", "plain"} : HandleGoalAnalysis("step", u, uploaded_material)

StepPlanConfirmation ==
    /\ pc = "idle"
    /\ turns < MaxTurns
    /\ turns' = turns + 1
    /\ UNCHANGED <<deck, tut, writers>>
    /\ state = "AWAITING_PLAN_CONFIRMATION"
    /\ \E u \in {"affirm", "negate", "plain"} : HandlePlanConfirmation("step", u)

StepTutoring ==
    /\ pc = "idle"
    /\ turns < MaxTurns
    /\ turns' = turns + 1
    /\ state = "TUTORING"
    /\ AppendAndCheckFlashcards("step", AddToHistory(history, "user"), FlashDecisions)

\* The second step of a tutoring turn.
DecideAndRespond ==
    /\ pc = "strategist"
    /\ tut' = NoTut
    /\ UNCHANGED <<turns, deck, writers>>
    /\ HandleTutoring(tut.call, tut.cards_created_count)

\* No branch of step handles GENERATING_KB: it returns the empty response.
StepNoHandler ==
    /\ pc = "idle"
    /\ turns < MaxTurns
    /\ turns' = turns + 1
    /\ UNCHANGED <<deck, tut, writers>>
    /\ state = "GENERATING_KB"
    /\ Return(state, learning_blueprint, uploaded_material, knowledge_base,
              current_concept_id, knowledge_mastery, dir,
              Obs("step", "none", "none", FALSE, ""))

SetUploadedMaterial ==
    /\ pc = "idle"
    /\ turns < MaxTurns
    /\ turns' = turns + 1
    /\ UNCHANGED <<deck, tut, writers>>
    /\ \E content \in Materials :
        HandleGoalAnalysis("set_uploaded_material", "", content)

Next ==
    \/ StepGoalAnalysis
    \/ StepPlanConfirmation
    \/ StepTutoring
    \/ StepNoHandler
    \/ SetUploadedMaterial
    \/ CallGenerator
    \/ ValidateAndAct
    \/ DecideAndRespond

Spec == Init /\ [][Next]_vars

(***************************************************************************)
(* The properties.                                                         *)
(***************************************************************************)
\* The dialogue state the call that this step belongs to found when it started.
StateBeforeCall == IF pc \in {"idle", "strategist"} THEN state ELSE gen.entry_state

\* This step is the last of a call.
CallEnds == pc' = "idle"

\* C1: after any call of step() or set_uploaded_material() has ended, by a
\* return or by an exception, the dialogue state is not GENERATING_KB.
C1_NeverLeftGenerating == pc = "idle" => state # "GENERATING_KB"

\* C2: a call in which an external service, the storage or a concept lookup
\* failed still returns a reply, and leaves the dialogue state, the
\* current-concept pointer and the mastery map as the call found them (and
\* the blueprint, for a call that did not enter generation: generation
\* changes no pointer and no mastery before its last step).
C2_FailedTurnCommitsNothing ==
    [][(CallEnds /\ last'.fault # "none") =>
          /\ ~last'.raised
          /\ state' = StateBeforeCall
          /\ current_concept_id' = current_concept_id
          /\ knowledge_mastery' = knowledge_mastery
          /\ (pc = "idle" => learning_blueprint' = learning_blueprint)]_vars

\* C3: set_uploaded_material leaves the dialogue state as it found it.
C3_UploadKeepsState ==
    [][(CallEnds /\ last'.call = "set_uploaded_material") =>
          state' = StateBeforeCall]_vars

\* C4: in every reachable state, a blueprint whose status is complete has a
\* topic and at least one sub-topic.
C4_CompleteBlueprintIsPopulated ==
    learning_blueprint.status = "complete" =>
        /\ learning_blueprint.topic # Nil
        /\ learning_blueprint.sub_topics # <<>>

\* A call has ended in which a generated collection was saved and reloaded,
\* so that _start_tutoring_session_from_loaded_kb ran.
GenerationAccepted ==
    /\ pc = "idle"
    /\ last.gen_calls > 0
    /\ last.reply \in {"kb_not_loaded", "kb_without_concepts", "all_mastered",
                       "concept_unloadable", "first_question"}

\* The places, in insertion order, of the active collection's concepts whose
\* mastery is below the threshold.
Unmastered ==
    {i \in 1..Len(knowledge_base.concepts) :
        MasteryGet(knowledge_mastery, knowledge_base.concepts[i].name, 0)
            < mastery_threshold}

FirstUnmastered == CHOOSE i \in Unmastered : \A j \in Unmastered : i <= j

PassesBothChecks ==
    /\ gen.kb_model # Nil
    /\ IF learning_blueprint.sub_topics # <<>>
       THEN \A i \in 1..Len(learning_blueprint.sub_topics) :
                \E j \in 1..Len(gen.kb_model) :
                    gen.kb_model[j] = learning_blueprint.sub_topics[i]
       ELSE Len(gen.kb_model) > 0

\* save_knowledge_base is invoked in this step of the loop.
SaveInvoked ==
    \/ pc' = "idle" /\ last'.saves > gen.saves
    \/ pc' # "idle" /\ gen'.saves > gen.saves

\* C7: an attempt whose response did not parse into a model, or whose model
\* lacks a requested sub-topic (or, with none requested, has no concept),
\* does not invoke save_knowledge_base and changes no file.
C7_OnlyValidatedModelsAreSaved ==
    [][(pc = "validate" /\ ~PassesBothChecks) =>
          (~SaveInvoked /\ dir' = dir)]_vars

C7_Witness ==
    /\ pc = "idle"
    /\ last.saves = 1
    /\ last.verdicts = <<"incomplete", "complete">>
    /\ learning_blueprint.sub_topics # <<>>

\* C8: if the generated model lacks a requested sub-topic on both attempts,
\* the call ends in ANALYZING_GOAL with the error reply, without a save and
\* with the directory as the call found it.
C8_TwoIncompleteAttemptsChangeNoFile ==
    [][(pc = "validate" /\ CallEnds
          /\ last'.verdicts = <<"incomplete", "incomplete">>) =>
          /\ state' = "ANALYZING_GOAL"
          /\ last'.reply = "generation_failed"
          /\ ~last'.raised
          /\ last'.saves = 0
          /\ dir' = gen.entry_dir]_vars

C8_Witness ==
    /\ pc = "idle"
    /\ last.verdicts = <<"incomplete", "incomplete">>
    /\ last.gen_calls = 2
    /\ DOMAIN dir # {}

\* The file of the blueprint's topic holds every requested sub-topic.
PersistedHoldsSubTopics ==
    LET stem == SanitizeFilename(learning_blueprint.topic)
    IN  /\ stem \in DOMAIN dir
        /\ dir[stem].shape = "concepts"
        /\ \A i \in 1..Len(learning_blueprint.sub_topics) :
              learning_blueprint.sub_topics[i] \in KeySet(dir[stem].items)

FirstIncompleteSecondComplete ==
    /\ pc = "idle"
    /\ last.verdicts = <<"incomplete", "complete">>

\* C9, as stated: if the first attempt omits a requested sub-topic and the
\* second holds them all, there are exactly two generation calls and exactly
\* one save, and the persisted collection holds every requested sub-topic.
C9_SecondAttemptPersisted ==
    FirstIncompleteSecondComplete =>
        /\ last.gen_calls = 2
        /\ last.saves = 1
        /\ PersistedHoldsSubTopics

\* C9, amended: if the first attempt omits a requested sub-topic and the
\* second holds them all, there are exactly two generation calls and exactly
\* one save, and, unless that save raised (the call then ends with the
\* save-error reply), the persisted collection holds every requested
\* sub-topic.
C9_SecondAttemptPersistedUnlessSaveRaises ==
    FirstIncompleteSecondComplete =>
        /\ last.gen_calls = 2
        /\ last.saves = 1
        /\ last.reply # "save_error" => PersistedHoldsSubTopics

C9_Witness ==
    /\ FirstIncompleteSecondComplete
    /\ last.reply = "first_question"
    /\ Len(learning_blueprint.sub_topics) = 2

\* C10: whenever generation succeeds and the session starts, the active
\* collection is the one of the file just written, and every sub-topic of
\* the blueprint is one of its concept ids.
C10_ActiveCollectionIsTheSavedOne ==
    (GenerationAccepted /\ last.reply = "first_question") =>
        /\ knowledge_base.current_kb_path = SanitizeFilename(learning_blueprint.topic)
        /\ \A i \in 1..Len(learning_blueprint.sub_topics) :
              learning_blueprint.sub_topics[i] \in KeySet(knowledge_base.concepts)

(***************************************************************************)
(* The storage round trip on its own: save_knowledge_base(topic, concepts) *)
(* (tools_custom.py:10-48), then scan_for_kbs and load_kb_by_topic with    *)
(* the canonical name of the saved file (knowledge_base.py:24-34, 40-75),  *)
(* from any directory the program may have, as often as one likes.  last   *)
(* keeps the arguments and the outcome of the round trip.                  *)
(***************************************************************************)
StorageTopics == Topics \cup {<<"a", "_", "a">>}

StorageDirs ==
    InitialDirs \cup
    { [st \in {<<"a", " ", "a">>} |-> File("concepts", <<Entry("B", "obj")>>)],
      [st \in {<<"a", " ", "a">>} |-> File("concepts_list", <<Entry("A", "obj")>>)] }

RoundTrip(topic, concepts, stem, raised, loaded) ==
    [call |-> "save_and_load", topic |-> topic, concepts |-> concepts,
     stem |-> stem, raised |-> raised, loaded |-> loaded]

StorageInit ==
    /\ state = "IDLE"
    /\ learning_blueprint = InitialBlueprint
    /\ uploaded_material = None
    /\ dir \in StorageDirs
    /\ \E avail \in ScanResults(dir) :
          knowledge_base = [available_kbs |-> avail, concepts |-> <<>>,
                            current_kb_name |-> Nil, current_kb_path |-> Nil]
    /\ current_concept_id = None
    /\ knowledge_mastery = <<>>
    /\ pc = "idle"
    /\ gen = NoGen
    /\ last = NoCall
    /\ turns = 0
    /\ deck = EmptyDeck
    /\ history = <<>>
    /\ tut = NoTut
    /\ writers = NoWriters

\* The round trip after save_knowledge_base gave sv: an exception of the
\* save ends it; otherwise the rescan and the load, which gave ld.
Reloaded(topic, concepts, sv, ld) ==
    /\ knowledge_base' = ld.kb
    /\ last' = RoundTrip(topic, concepts, sv.stem, FALSE, ld.loaded)

SaveRescanLoadWith(topic, concepts, sv) ==
    /\ dir' = sv.dir
    /\ IF sv.raised
       THEN /\ knowledge_base' = knowledge_base
            /\ last' = RoundTrip(topic, concepts, sv.stem, TRUE, FALSE)
       ELSE \E avail \in ScanResults(sv.dir), readFault \in BOOLEAN :
                Reloaded(topic, concepts, sv,
                         LoadKbByTopic([knowledge_base EXCEPT !.available_kbs = avail],
                                       sv.dir, CanonicalName(sv.stem), readFault))

SaveRescanLoad ==
    /\ turns < MaxRoundTrips
    /\ turns' = turns + 1
    /\ UNCHANGED <<deck, tut, writers>>
    /\ \E topic \in StorageTopics, concepts \in ConceptLists, fault \in SaveFaults :
          SaveRescanLoadWith(topic, concepts,
                             SaveKnowledgeBase(dir, topic, concepts, fault))
    /\ UNCHANGED <<state, learning_blueprint, uploaded_material, current_concept_id,
                   knowledge_mastery, pc, gen, history>>

StorageNext == SaveRescanLoad

StorageSpec == StorageInit /\ [][StorageNext]_vars

\* The mapping of a list of entries, and the mapping save_knowledge_base is
\* given.
Mapping(items) == {items[i] : i \in 1..Len(items)}
GivenMapping(concepts) == {Entry(concepts[i], "obj") : i \in 1..Len(concepts)}

\* This step is a round trip in which neither the save nor the load failed.
RoundTripDone ==
    /\ last'.call = "save_and_load"
    /\ ~last'.raised
    /\ last'.loaded

\* No other file of the directory has the canonical name of the saved one.
NameIsItsOwn(d, stem) ==
    \A st \in DOMAIN d : CanonicalName(st) = CanonicalName(stem) => st = stem

Evaluations == {"correct", "partially_correct", "incorrect", "misconception", "unrated"}

\* An update that forgets the mastery, which C13 tells from update_mastery.
UpdateMasteryToZero(m, concept_id, evaluation, force_mastery) ==
    MasterySet(m, concept_id, 0)

\* update_mastery: 0.4 is 2/5, 0.15 is 3/20, 0.85 is 17/20.
UpdateMastery(m, concept_id, evaluation, force_mastery) ==
    IF force_mastery THEN MasterySet(m, concept_id, MasteryScale)
    ELSE LET current_mastery == MasteryGet(m, concept_id, 0)
             new_mastery ==
                 IF evaluation = "correct"
                 THEN current_mastery + (2 * (MasteryScale - current_mastery)) \div 5
                 ELSE IF evaluation = "partially_correct"
                 THEN current_mastery + (3 * (MasteryScale - current_mastery)) \div 20
                 ELSE IF evaluation \in {"incorrect", "misconception"}
                 THEN (17 * current_mastery) \div 20
                 ELSE current_mastery
         IN  MasterySet(m, concept_id, Min2(MasteryScale, Max2(0, new_mastery)))

\* The collections of the sessions: one concept, two concepts, and two of
\* which the second has a value get_concept rejects.
SessionCollections ==
    { <<Entry("A", "obj")>>,
      <<Entry("A", "obj"), Entry("B", "obj")>>,
      <<Entry("A", "obj"), Entry("B", "bad")>> }

SessionTopic == <<"a", " ", "a">>

TutoringInit ==
    /\ state = "TUTORING"
    /\ learning_blueprint = [InitialBlueprint EXCEPT !.status = "complete",
                                                     !.topic = SessionTopic]
    /\ uploaded_material = None
    /\ \E items \in SessionCollections :
          /\ dir = [st \in {SanitizeFilename(SessionTopic)} |-> File("concepts", items)]
          /\ knowledge_base =
                [available_kbs |-> [n \in {CanonicalName(SanitizeFilename(SessionTopic))}
                                       |-> SanitizeFilename(SessionTopic)],
                 concepts |-> items,
                 current_kb_name |-> CanonicalName(SanitizeFilename(SessionTopic)),
                 current_kb_path |-> SanitizeFilename(SessionTopic)]
    /\ current_concept_id = "A"
    /\ knowledge_mastery = <<>>
    /\ pc = "idle"
    /\ gen = NoGen
    /\ last = [Obs("step", "goal_analysis", "none", FALSE, "first_question")
                  EXCEPT !.gen_calls = 1, !.saves = 1, !.stored = <<"reloaded">>,
                         !.verdicts = <<"complete">>]
    /\ turns = 0
    /\ deck = EmptyDeck
    /\ history = <<"assistant">>
    /\ tut = NoTut
    /\ writers = NoWriters

\* What a call of a planner operation leaves in last.
PlannerCall(call, concept_id, evaluation, force_mastery, before, keys, plan) ==
    [call |-> call, handler |-> "none", fault |-> "none", raised |-> FALSE,
     reply |-> None, concept_id |-> concept_id, evaluation |-> evaluation,
     force_mastery |-> force_mastery, before |-> before, keys |-> keys, plan |-> plan]

UpdateMasteryCall ==
    /\ pc = "idle"
    /\ turns < MaxTurns
    /\ turns' = turns + 1
    /\ UNCHANGED <<deck, tut, writers>>
    /\ \E concept_id \in ConceptIds, evaluation \in Evaluations, force_mastery \in BOOLEAN :
          /\ knowledge_mastery' =
                UpdateMastery(knowledge_mastery, concept_id, evaluation, force_mastery)
          /\ last' = PlannerCall("update_mastery", concept_id, evaluation, force_mastery,
                                 MasteryGet(knowledge_mastery, concept_id, 0), <<>>, None)
    /\ UNCHANGED <<state, learning_blueprint, uploaded_material, knowledge_base,
                   current_concept_id, dir, pc, gen, history>>

\* "Z" is an id that no collection has.
SelectNextActionCall ==
    /\ pc = "idle"
    /\ \E keys \in ConceptLists, current \in ConceptIds \cup {None, "Z"} :
          last' = PlannerCall("select_next_action", current, None, FALSE, 0, keys,
                              SelectNextAction(knowledge_mastery, keys, current))
    /\ UNCHANGED <<state, learning_blueprint, uploaded_material, knowledge_base,
                   current_concept_id, knowledge_mastery, dir, pc, gen, turns, deck,
                   history, tut, writers>>

\* A tutoring turn of a session in which the decision agent finds nothing
\* worth a card.
StepTutoringWithoutCards ==
    /\ pc = "idle"
    /\ turns < MaxTurns
    /\ turns' = turns + 1
    /\ state = "TUTORING"
    /\ AppendAndCheckFlashcards("step", AddToHistory(history, "user"), {"NO"})

TutoringNext ==
    \/ StepTutoringWithoutCards
    \/ DecideAndRespond
    \/ UpdateMasteryCall
    \/ SelectNextActionCall

TutoringSpec == TutoringInit /\ [][TutoringNext]_vars

\* C12: after any sequence of tutoring turns and of update_mastery calls,
\* with any evaluation, forced or not, every mastery value of the profile
\* is at least 0 and at most 1.
C12_MasteryStaysInUnitInterval ==
    \A id \in DOMAIN knowledge_mastery :
        knowledge_mastery[id] >= 0 /\ knowledge_mastery[id] <= MasteryScale

\* A concept at the top of the interval, reached by more than one step, that
\* update_mastery was just asked to raise.
C12_Witness ==
    /\ last.call = "update_mastery"
    /\ ~last.force_mastery
    /\ last.evaluation = "correct"
    /\ last.before = MasteryScale
    /\ knowledge_mastery[last.concept_id] = MasteryScale
    /\ turns >= 2

\* This step is a call of update_mastery that was not forced.
UpdateMasteryDone == last'.call = "update_mastery" /\ ~last'.force_mastery

\* C13: for every mastery m from 0 to 1, update_mastery with 'correct'
\* leaves m + 0.4 * (1 - m), which is not below m, and with 'incorrect'
\* leaves 0.85 * m, which is not above m.
C13_CorrectRaisesIncorrectLowers ==
    [][UpdateMasteryDone =>
        /\ last'.evaluation = "correct" =>
              /\ 5 * knowledge_mastery'[last'.concept_id]
                    = 5 * last'.before + 2 * (MasteryScale - last'.before)
              /\ knowledge_mastery'[last'.concept_id] >= last'.before
        /\ last'.evaluation = "incorrect" =>
              /\ 20 * knowledge_mastery'[last'.concept_id] = 17 * last'.before
              /\ knowledge_mastery'[last'.concept_id] <= last'.before]_vars

\* A mastery strictly between 0 and 1 that 'correct' has raised.
C13_Witness ==
    /\ last.call = "update_mastery"
    /\ ~last.force_mastery
    /\ last.evaluation = "correct"
    /\ last.before > 0
    /\ last.before < MasteryScale
    /\ knowledge_mastery[last.concept_id] > last.before

\* The position at which the scan of select_next_action starts, as C14
\* states it.
ScanStart(keys, current) ==
    IF current # None /\ \E i \in 1..Len(keys) : keys[i] = current
    THEN (CHOOSE i \in 1..Len(keys) : keys[i] = current) + 1
    ELSE 1

\* The plan is the one C14 asks for, given the profile m.
PlanIsRight(m, call) ==
    LET scanned == ScanStart(call.keys, call.concept_id)..Len(call.keys)
        below(i) == MasteryGet(m, call.keys[i], 0) < mastery_threshold
    IN  /\ call.plan.action \in {"start_new", "finish"}
        /\ call.plan.action = "finish" <=> \A i \in scanned : ~below(i)
        /\ call.plan.action = "start_new" =>
              \E i \in scanned :
                  /\ call.keys[i] = call.plan.concept_id
                  /\ below(i)
                  /\ \A j \in scanned : j < i => ~below(j)

\* C14: select_next_action returns start_new with the first concept, at or
\* after the start position, whose mastery is below the threshold, the start
\* being the position after the current concept when one is given and is in
\* the list and the first position otherwise; it returns finish when the
\* list is empty or the scan finds none; it changes neither the profile nor
\* the collection.
C14_PlannerPicksFirstUnmasteredAhead ==
    [][last'.call = "select_next_action" =>
        /\ PlanIsRight(knowledge_mastery', last')
        /\ knowledge_mastery' = knowledge_mastery
        /\ knowledge_base' = knowledge_base]_vars

\* The planner, asked with a current concept that is itself unmastered and
\* after a mastered one, went on to the concept behind it.
C14_Witness ==
    /\ last.call = "select_next_action"
    /\ last.keys = <<"B", "A">>
    /\ last.concept_id = "B"
    /\ MasteryGet(knowledge_mastery, "B", 0) < mastery_threshold
    /\ MasteryGet(knowledge_mastery, "B", 0) > 0
    /\ last.plan = [action |-> "start_new", concept_id |-> "A"]

(***************************************************************************)
(* The tutoring turns of a session, with nothing else between them.        *)
(***************************************************************************)
SessionNext ==
    \/ StepTutoring
    \/ DecideAndRespond

SessionSpec == TutoringInit /\ [][SessionNext]_vars

\* Every concept of the collection has a mastery at or above the threshold.
AllMastered(m, concepts) ==
    \A i \in 1..Len(concepts) : MasteryGet(m, concepts[i].name, 0) >= mastery_threshold

\* This step is a turn that the tutoring handler took and ended by a return.
TutoringTurnDone ==
    /\ pc = "strategist"
    /\ state = "TUTORING"
    /\ last'.handler = "tutoring"
    /\ ~last'.raised

\* C15: after a turn handled in TUTORING the state is IDLE exactly when every
\* concept of the active collection has a mastery at or above the threshold,
\* and is still TUTORING otherwise.
C15_IdleExactlyWhenAllMastered ==
    [][TutoringTurnDone =>
        /\ state' = "IDLE" <=> AllMastered(knowledge_mastery', knowledge_base'.concepts)
        /\ ~AllMastered(knowledge_mastery', knowledge_base'.concepts)
              => state' = "TUTORING"]_vars

\* The strategist decided progress_to_next_concept in this step: the turn
\* gave the closing message or the next concept's question, or ended by the
\* exception of a next concept without a usable value.
ProgressDecided ==
    /\ pc = "strategist"
    /\ state = "TUTORING"
    /\ last'.handler = "tutoring"
    /\ last'.reply \in {"session_complete", "next_concept"} \/ last'.raised

\* The plan of the planner asked with the concept that was current.
PlanAfterProgress ==
    SelectNextAction(knowledge_mastery', GetConceptKeys(knowledge_base.concepts),
                     current_concept_id)

\* C16: on progress_to_next_concept the mastery of the current concept
\* becomes 1.0; when the planner, asked with the current concept, returns
\* finish the state becomes IDLE, otherwise it stays TUTORING and the
\* pointer becomes the concept the planner returned; when no other concept
\* is unmastered the state becomes IDLE.
C16_ProgressMastersAndMovesOn ==
    [][ProgressDecided =>
        /\ MasteryGet(knowledge_mastery', current_concept_id, 0) = MasteryScale
        /\ PlanAfterProgress.action = "finish" => state' = "IDLE"
        /\ PlanAfterProgress.action # "finish" =>
              /\ state' = "TUTORING"
              /\ current_concept_id' = PlanAfterProgress.concept_id
        /\ (\A i \in 1..Len(knowledge_base.concepts) :
                \/ knowledge_base.concepts[i].name = current_concept_id
                \/ MasteryGet(knowledge_mastery, knowledge_base.concepts[i].name, 0)
                      >= mastery_threshold)
              => state' = "IDLE"]_vars

\* A session over two concepts that went on from the first to the second and
\* ended when the second, the last unmastered one, was done.
C16_Witness ==
    /\ last.handler = "tutoring"
    /\ last.reply = "session_complete"
    /\ state = "IDLE"
    /\ Len(knowledge_base.concepts) = 2
    /\ current_concept_id = "B"
    /\ knowledge_mastery["A"] = MasteryScale
    /\ knowledge_mastery["B"] = MasteryScale

(***************************************************************************)
(* The review manager on its own: add_card, delete_card and                *)
(* update_card_review (review_manager.py:75-103, 123-152) in any order, on  *)
(* a deck that is new or was loaded from its file.  last keeps the call,   *)
(* its arguments, what it gave and the cards it found.                     *)
(***************************************************************************)
InitialDecks ==
    { EmptyDeck,
      [cards |-> <<Flashcard(1, "A", "Q1")>>,
       file |-> DeckFile("deck", <<Flashcard(1, "A", "Q1")>>),
       minted |-> 1] }

DeckInit ==
    /\ state = "IDLE"
    /\ learning_blueprint = InitialBlueprint
    /\ uploaded_material = None
    /\ dir = <<>>
    /\ knowledge_base = [available_kbs |-> <<>>, concepts |-> <<>>,
                         current_kb_name |-> Nil, current_kb_path |-> Nil]
    /\ current_concept_id = None
    /\ knowledge_mastery = <<>>
    /\ pc = "idle"
    /\ gen = NoGen
    /\ last = NoCall
    /\ turns = 0
    /\ deck \in InitialDecks
    /\ history = <<>>
    /\ tut = NoTut
    /\ writers = NoWriters

DeckCall(call, question, card_id, r) ==
    [call |-> call, question |-> question, card_id |-> card_id,
     returned |-> r.returned, raised |-> r.raised, before |-> deck.cards]

DeckReturn(call, question, card_id, r) ==
    /\ deck' = r.deck
    /\ last' = DeckCall(call, question, card_id, r)

AddCardCall ==
    /\ \E concept_id \in {"A"}, question \in Questions, fault \in DeckFaults :
          /\ HasQuestion(deck.cards, question) \/ deck.minted < MaxMinted
          /\ DeckReturn("add_card", question, 0,
                        AddCard(deck, concept_id, question, fault))
    /\ UNCHANGED <<state, learning_blueprint, uploaded_material, knowledge_base,
                   current_concept_id, knowledge_mastery, dir, pc, gen, turns,
                   history, tut, writers>>

DeleteCardCall ==
    /\ \E card_id \in 1..MaxMinted, fault \in DeckFaults :
          DeckReturn("delete_card", "", card_id, DeleteCard(deck, card_id, fault))
    /\ UNCHANGED <<state, learning_blueprint, uploaded_material, knowledge_base,
                   current_concept_id, knowledge_mastery, dir, pc, gen, turns,
                   history, tut, writers>>

UpdateCardReviewCall ==
    /\ \E card_id \in 1..MaxMinted, user_rating \in Ratings, fault \in DeckFaults :
          /\ \A i \in 1..Len(deck.cards) :
                deck.cards[i].id = card_id => deck.cards[i].reviews < MaxReviews
          /\ DeckReturn("update_card_review", "", card_id,
                        UpdateCardReview(deck, card_id, user_rating, fault))
    /\ UNCHANGED <<state, learning_blueprint, uploaded_material, knowledge_base,
                   current_concept_id, knowledge_mastery, dir, pc, gen, turns,
                   history, tut, writers>>

DeckNext ==
    \/ AddCardCall
    \/ DeleteCardCall
    \/ UpdateCardReviewCall

DeckSpec == DeckInit /\ [][DeckNext]_vars

\* The cards of the deck with that question.
CardsAsking(cards, question) == {i \in 1..Len(cards) : cards[i].question = question}

\* C17: after any sequence of add_card, delete_card and update_card_review
\* on a deck that started without duplicate questions, no two cards have the
\* same question; add_card with a question the deck has returns no card and
\* leaves the deck as it was, and after add_card the deck has exactly one
\* card with the question.
C17_QuestionsAreUnique ==
    /\ \A q \in Questions : Cardinality(CardsAsking(deck.cards, q)) <= 1
    /\ last.call = "add_card" =>
          /\ Cardinality(CardsAsking(deck.cards, last.question)) = 1
          /\ HasQuestion(last.before, last.question) =>
                ~last.returned /\ ~last.raised /\ deck.cards = last.before

\* add_card was refused for a question that a card of the deck, reviewed
\* since, already asks, in a deck that has lost a card.
C17_Witness ==
    /\ last.call = "add_card"
    /\ HasQuestion(last.before, last.question)
    /\ ~last.returned
    /\ deck.minted > Len(deck.cards)
    /\ \E i \in 1..Len(deck.cards) :
          deck.cards[i].question = last.question /\ deck.cards[i].reviews > 0

\* The intent of lines 459-468, as C18 reads it: what the classifier's JSON
\* says when it says confirm or reject, the keyword of the user's text when
\* the classifier gave nothing, and unclear otherwise.
IntentOf(said) ==
    IF said.classifier \in {"confirm", "reject"} THEN said.classifier
    ELSE IF said.classifier = "no_msgs" /\ said.user_response = "affirm" THEN "confirm"
    ELSE IF said.classifier = "no_msgs" /\ said.user_response = "negate" THEN "reject"
    ELSE "unclear"

\* This step hands the call to _generate_kb_and_start for that handler: the
\* call goes on in the generation loop.
EntersGeneration(handler) == pc' = "call_generator" /\ gen'.handler = handler

\* C18: a turn handled in AWAITING_PLAN_CONFIRMATION sets the status to
\* complete and runs the generation on intent confirm (the call goes on in
\* GENERATING_KB, or the generation refuses at once a blueprint without a
\* topic); on intent reject it leaves the initial blueprint and
\* ANALYZING_GOAL; on any other intent it leaves the state and the
\* blueprint as they were.
C18_ConfirmRejectOrStay ==
    [][(pc = "idle" /\ state = "AWAITING_PLAN_CONFIRMATION") =>
        /\ EntersGeneration("plan_confirmation") =>
              /\ learning_blueprint' = [learning_blueprint EXCEPT !.status = "complete"]
              /\ state' = "GENERATING_KB"
        /\ (CallEnds /\ last'.answer.service = "classifier") =>
              /\ IntentOf(last'.answer) = "confirm" =>
                    /\ learning_blueprint' =
                          [learning_blueprint EXCEPT !.status = "complete"]
                    /\ last'.reply = "no_topic_error"
                    /\ Falsy(learning_blueprint.topic)
              /\ IntentOf(last'.answer) = "reject" =>
                    /\ learning_blueprint' = InitialBlueprint
                    /\ state' = "ANALYZING_GOAL"
              /\ IntentOf(last'.answer) = "unclear" =>
                    /\ learning_blueprint' = learning_blueprint
                    /\ state' = "AWAITING_PLAN_CONFIRMATION"]_vars

\* The plan of the analyzer, with a topic and sub-topics, was rejected.
C18_Witness ==
    /\ last.answer.service = "classifier"
    /\ last.answer.classifier = "reject"
    /\ last.reply = "plan_rejected"
    /\ state = "ANALYZING_GOAL"
    /\ learning_blueprint = InitialBlueprint

\* This step is a call in which the content analyzer was asked.
AnalyzerCalled == CallEnds /\ last'.answer.service = "analyzer"

\* The material the analyzer was given in this step.
AnalysedMaterial ==
    IF last'.call = "set_uploaded_material" THEN Materials ELSE {uploaded_material}

HasKey(upd, k) ==
    IF k \in {"topic", "sub_topics"} THEN upd[k] # AbsentList ELSE upd[k] # Absent

\* The blueprint with the entries of the JSON object over its own.
Merged(bp, upd) == [k \in DOMAIN bp |-> IF HasKey(upd, k) THEN upd[k] ELSE bp[k]]

\* C20: on a turn of IDLE or ANALYZING_GOAL without stored material the
\* parsed answer of the elicitor is merged into the blueprint; when the
\* status is then complete the generation runs in the same turn (the call
\* goes on in GENERATING_KB, or the generation refuses at once a blueprint
\* without a topic); otherwise the state is as it was and the reply is the
\* next question.  An answer with a topic and no status, on an incomplete
\* blueprint, leaves the topic set and the status incomplete.
C20_ElicitationMergesThenGeneratesOrAsks ==
    [][(pc = "idle" /\ state \in {"IDLE", "ANALYZING_GOAL"}) =>
        /\ EntersGeneration("goal_analysis") =>
              /\ \E u \in ElicitorUpdates :
                    learning_blueprint' = Merged(learning_blueprint, u)
              /\ learning_blueprint'.status = "complete"
              /\ state' = "GENERATING_KB"
        /\ (CallEnds /\ last'.answer.service = "elicitor") =>
              /\ uploaded_material = None
              /\ learning_blueprint' = Merged(learning_blueprint, last'.answer.update)
              /\ learning_blueprint'.status = "complete" =>
                    /\ last'.reply = "no_topic_error"
                    /\ Falsy(learning_blueprint'.topic)
              /\ learning_blueprint'.status # "complete" =>
                    /\ state' = state
                    /\ last'.reply = "next_question"
              /\ (/\ HasKey(last'.answer.update, "topic")
                  /\ last'.answer.update.topic # Nil
                  /\ learning_blueprint.status = "incomplete") =>
                    /\ learning_blueprint'.topic = last'.answer.update.topic
                    /\ learning_blueprint'.status = "incomplete"]_vars

\* An answer that gave only a topic, on the first turn's blueprint.
C20_Witness ==
    /\ last.answer.service = "elicitor"
    /\ last.reply = "next_question"
    /\ last.answer.update.topic = <<"a", " ", "a">>
    /\ learning_blueprint = [InitialBlueprint EXCEPT !.topic = <<"a", " ", "a">>]
    /\ state = "IDLE"

(***************************************************************************)
(* The tutoring turns (SessionSpec).                                       *)
(***************************************************************************)
\* This step is the first of a tutoring turn: the user's entry and the
\* flashcard pipeline.
TurnBegins == pc = "idle" /\ pc' = "strategist"

\* This step is the second of a tutoring turn, in which the strategist was
\* asked.
StrategistAsked ==
    /\ pc = "strategist"
    /\ last'.answer.service = "strategist"

\* C21: when, in a tutoring turn, the request to the strategist raises,
\* gives nothing, or gives what cannot be parsed or validated as a decision,
\* the turn returns the fixed apology, and the dialogue state, the
\* current-concept pointer and the whole mastery map are as they were
\* before the turn (the first step of the turn changes none of them).
C21_StrategistFailureChangesNothing ==
    [][/\ TurnBegins =>
             /\ state' = state
             /\ current_concept_id' = current_concept_id
             /\ knowledge_mastery' = knowledge_mastery
       /\ (StrategistAsked /\ last'.answer.strategist \notin ResponseStrategy) =>
             /\ last'.reply = "apology"
             /\ ~last'.raised
             /\ state' = state
             /\ current_concept_id' = current_concept_id
             /\ knowledge_mastery' = knowledge_mastery]_vars

\* The apology for a decision that did not validate, in a turn that made a
\* card, with a mastery on record.
C21_Witness ==
    /\ pc = "idle"
    /\ last.reply = "apology"
    /\ last.answer.strategist = "invalid"
    /\ last.cards_created_count = 1
    /\ state = "TUTORING"
    /\ MasteryGet(knowledge_mastery, current_concept_id, 0) > 0

\* The strategist gave a valid decision in this step, and the turn returned
\* a reply.
DecisionAnswered ==
    /\ StrategistAsked
    /\ last'.answer.strategist \in ResponseStrategy
    /\ ~last'.raised

\* C22: in every tutoring turn in which the strategist gives a valid
\* decision, whatever the strategy, the reply holds the content of the
\* decision's action, after the flashcard notification when the pipeline
\* made one.
C22_ReplyCarriesActionContent ==
    [][DecisionAnswered =>
        /\ Len(last'.final_response)
              > Len(CardNotification(tut.cards_created_count))
        /\ SubSeq(last'.final_response, 1,
                  Len(CardNotification(tut.cards_created_count)))
              = CardNotification(tut.cards_created_count)
        /\ last'.final_response[Len(CardNotification(tut.cards_created_count)) + 1]
              = "action_content"]_vars

\* This step ends a tutoring turn by a return.
TurnReturns ==
    /\ pc = "strategist"
    /\ CallEnds
    /\ ~last'.raised

\* C23: every turn handled in TUTORING that returns adds to the history
\* exactly one entry of the user and then exactly one of the assistant,
\* whatever the strategy or the outcome of the turn: its first step adds the
\* user's, its last step the assistant's, so that between tutoring turns
\* the history ends with an entry of the assistant.
C23_TurnAddsUserThenAssistant ==
    [][/\ TurnBegins => history' = Append(history, "user")
       /\ TurnReturns =>
             /\ history[Len(history)] = "user"
             /\ history' = Append(history, "assistant")]_vars

(***************************************************************************)
(* The storage (StorageSpec), continued.                                   *)
(***************************************************************************)
\* This step is a save_knowledge_base that did not raise, on a topic whose
\* file held a collection.
SavedOverCollection ==
    /\ last'.call = "save_and_load"
    /\ ~last'.raised
    /\ last'.stem \in DOMAIN dir
    /\ dir[last'.stem].shape # "corrupt"

\* C24: save_knowledge_base(topic, New) on a topic whose file holds the
\* concepts Old writes a file of the shape {concepts: M}, where the keys of
\* M are those of Old and of New together, M has the value of New for every
\* key of New and the value of Old for every key of Old alone; and the same
\* save once more leaves the directory as it is.
C24_SaveMergesNewOverOld ==
    [][SavedOverCollection =>
        /\ dir'[last'.stem].shape = "concepts"
        /\ KeySet(dir'[last'.stem].items)
              = KeySet(LoadedConcepts(dir[last'.stem])) \cup Range(last'.concepts)
        /\ GivenMapping(last'.concepts) \subseteq Mapping(dir'[last'.stem].items)
        /\ \A e \in Mapping(LoadedConcepts(dir[last'.stem])) :
              e.name \notin Range(last'.concepts)
                  => e \in Mapping(dir'[last'.stem].items)
        /\ SaveKnowledgeBase(dir', last'.topic, last'.concepts, "none").dir = dir']_vars

(***************************************************************************)
(* The storage inside the generation loop (Spec).                          *)
(***************************************************************************)
\* What became of the saves of the running call, with this step.
StoredNow == IF pc' = "idle" THEN last'.stored ELSE gen'.stored

\* save_knowledge_base was called in this step, and that became of it.
SaveEnded(outcome) ==
    /\ pc = "validate"
    /\ Len(StoredNow) = Len(gen.stored) + 1
    /\ StoredNow[Len(StoredNow)] = outcome

C26_SaveRaiseCountsAsAttempt ==
    [][/\ SaveEnded("raised") =>
             IF gen.attempt = 0
             THEN /\ pc' = "call_generator"
                  /\ gen'.attempt = 1
             ELSE /\ CallEnds
                  /\ ~last'.raised
                  /\ last'.reply = "save_error"
                  /\ state' = "ANALYZING_GOAL"
       /\ pc = "call_generator" => gen.attempt < 2
       /\ (CallEnds /\ last'.gen_calls > 0) => last'.gen_calls <= 2]_vars

\* The save raised on both attempts.
C26_Witness ==
    /\ pc = "idle"
    /\ last.stored = <<"raised", "raised">>
    /\ last.gen_calls = 2
    /\ last.reply = "save_error"
    /\ state = "ANALYZING_GOAL"

\* The mastery of the concept that is current before this step, or unset.
Unset == 0 - 1
PriorMastery(default) == MasteryGet(knowledge_mastery, current_concept_id, default)
NewMastery == MasteryGet(knowledge_mastery', current_concept_id, Unset)

\* C27: in a tutoring turn with a valid decision, review_and_clarify leaves
\* the current concept's mastery at max(0, m - 0.2), m its value before or
\* 0.1 when it had none, and consolidate_and_verify and socratic_guidance
\* leave it at min(1.0, m + 0.2), m its value before or 0.0 when it had none
\* (all values times 10, in units of 1/MasteryScale).
C27_ReviewLowersConsolidateRaises ==
    [][StrategistAsked =>
        /\ last'.answer.strategist = "review_and_clarify" =>
              10 * NewMastery
                  = IF 10 * PriorMastery(MasteryScale \div 10) - 2 * MasteryScale < 0
                    THEN 0
                    ELSE 10 * PriorMastery(MasteryScale \div 10) - 2 * MasteryScale
        /\ last'.answer.strategist \in {"consolidate_and_verify", "socratic_guidance"} =>
              10 * NewMastery
                  = IF 10 * PriorMastery(0) + 2 * MasteryScale > 10 * MasteryScale
                    THEN 10 * MasteryScale
                    ELSE 10 * PriorMastery(0) + 2 * MasteryScale]_vars

\* A review that found the concept forced to 1.0 and left it at 0.8.
C27_Witness ==
    /\ pc = "idle"
    /\ last.handler = "tutoring"
    /\ last.answer.service = "strategist"
    /\ last.answer.strategist = "review_and_clarify"
    /\ 5 * MasteryGet(knowledge_mastery, current_concept_id, 0) = 4 * MasteryScale
    /\ turns = 2

\* The strategies that the dispatch of lines 777-802 has no branch for, or a
\* branch that does nothing.
QuietStrategies ==
    {"answer_question", "handle_irrelevance", "follow_user_lead", "acknowledge_and_wait"}

\* C28: in a tutoring turn the strategies answer_question,
\* handle_irrelevance, follow_user_lead and acknowledge_and_wait leave the
\* whole mastery map, the current-concept pointer and the dialogue state as
\* they were; and under every strategy, and in both steps of the turn, the
\* mastery map changes at most in the entry of the concept that was current
\* when the turn began (the first step changes neither map nor pointer).
C28_OnlyTheCurrentEntryChanges ==
    [][/\ TurnBegins =>
             /\ knowledge_mastery' = knowledge_mastery
             /\ current_concept_id' = current_concept_id
             /\ state' = state
       /\ (StrategistAsked /\ last'.answer.strategist \in QuietStrategies) =>
             /\ knowledge_mastery' = knowledge_mastery
             /\ current_concept_id' = current_concept_id
             /\ state' = state
       /\ pc = "strategist" =>
             /\ DOMAIN knowledge_mastery' \subseteq
                    DOMAIN knowledge_mastery \cup {current_concept_id}
             /\ \A id \in DOMAIN knowledge_mastery :
                    id # current_concept_id =>
                        /\ id \in DOMAIN knowledge_mastery'
                        /\ knowledge_mastery'[id] = knowledge_mastery[id]]_vars

\* A quiet turn on the second concept, with both concepts on record at
\* different values.
C28_Witness ==
    /\ pc = "idle"
    /\ last.handler = "tutoring"
    /\ last.answer.service = "strategist"
    /\ last.answer.strategist = "follow_user_lead"
    /\ state = "TUTORING"
    /\ current_concept_id = "B"
    /\ DOMAIN knowledge_mastery = {"A", "B"}
    /\ knowledge_mastery["A"] # knowledge_mastery["B"]

\* C29: in each tutoring turn the flashcard pipeline runs at most once, in
\* the first step, which appends the user's message to the history before
\* it and asks no strategist; the second step, which asks the strategist,
\* finds the record of that run and leaves the deck alone.  The agents of
\* the pipeline are asked only when the history then has two entries or
\* more, the last the user's; the generator is asked only after the decision
\* agent said YES; and when the decision agent said NO, or failed, the
\* pipeline returns 0 and the deck is as it was.
C29_PipelineOncePerTurnAfterYes ==
    [][/\ TurnBegins =>
             /\ history' = Append(history, "user")
             /\ last' = NoCall
             /\ tut'.flash.runs <= 1
             /\ tut'.flash.runs = 1 <=> Len(history') >= 2
             /\ tut'.flash.decision # "not_asked" =>
                    /\ Len(history') >= 2
                    /\ history'[Len(history')] = "user"
             /\ tut'.flash.generation # "not_asked" => tut'.flash.decision = "YES"
             /\ tut'.flash.decision # "YES" =>
                    /\ tut'.flash.returned = 0
                    /\ tut'.cards_created_count = 0
                    /\ deck' = deck
       /\ pc = "strategist" =>
             /\ tut.running
             /\ tut.flash.runs <= 1
             /\ deck' = deck
             /\ pc' = "idle"]_vars

\* The decision agent said NO in a turn that found a card in the deck; the
\* strategist has not been asked yet.
C29_Witness ==
    /\ pc = "strategist"
    /\ tut.flash.runs = 1
    /\ tut.flash.decision = "NO"
    /\ tut.flash.generation = "not_asked"
    /\ Len(deck.cards) = 1
    /\ history[Len(history)] = "user"

\* C30: the number the pipeline returns is the number of cards its run
\* added to the deck, whatever the batch of candidates and whether or not a
\* save failed.
C30_CountIsCardsAdded ==
    [][TurnBegins =>
          tut'.flash.returned = Len(deck'.cards) - Len(deck.cards)]_vars

(***************************************************************************)
(* The deck and its file (DeckSpec).                                       *)
(***************************************************************************)
\* The cards a reader of the deck file gets: none when there is no file.
PersistedCards(d) == IF d.file.shape = "deck" THEN d.file.cards ELSE <<>>

\* C31: after every add_card, delete_card and update_card_review call,
\* whether it returned or raised, the deck file is readable and holds
\* exactly the cards of the deck in memory, each as it is in memory.
C31_FileHoldsTheDeck ==
    last.call \in {"add_card", "delete_card", "update_card_review"} =>
        /\ deck.file.shape # "corrupt"
        /\ PersistedCards(deck) = deck.cards

(***************************************************************************)
(* Opening a deck (ReviewManager.__init__, review_manager.py:40-66).  A    *)
(* run of the program makes a review manager over the file it finds: the   *)
(* one the run before left, or one that something else wrote, which is no  *)
(* JSON ("corrupt") or JSON that is no deck ("misfit").  When the          *)
(* constructor raises there is no manager (pc = "no_manager") and nothing  *)
(* can be called on it.  ManagerSpec is DeckSpec with such runs.           *)
(***************************************************************************)
FoundFiles(f) == {f, DeckFile("corrupt", <<>>), DeckFile("misfit", <<>>)}

\* _load_deck over the file f, for a manager that has made d.minted ids:
\* json.load raises JSONDecodeError on what is no JSON, and the handler of
\* line 61 removes the file; model_validate raises ValidationError, a
\* ValueError that the handler does not name, on JSON that is no deck.
LoadDeck(d, f) ==
    IF f.shape = "absent"
    THEN [deck |-> [d EXCEPT !.cards = <<>>, !.file = f],
          returned |-> TRUE, raised |-> FALSE]
    ELSE IF f.shape = "deck"
    THEN [deck |-> [d EXCEPT !.cards = f.cards, !.file = f],
          returned |-> TRUE, raised |-> FALSE]
    ELSE IF f.shape = "corrupt"
    THEN [deck |-> [d EXCEPT !.cards = <<>>, !.file = DeckFile("absent", <<>>)],
          returned |-> TRUE, raised |-> FALSE]
    ELSE [deck |-> [d EXCEPT !.cards = <<>>, !.file = f],
          returned |-> FALSE, raised |-> TRUE]

\* The record of a constructor call with the shape of the file it found.
LoadCall(found, r) ==
    [call |-> "load_deck", question |-> "", card_id |-> 0,
     returned |-> r.returned, raised |-> r.raised, before |-> deck.cards,
     found |-> found.shape]

LoadReturn(found, r) ==
    /\ deck' = r.deck
    /\ last' = LoadCall(found, r)
    /\ pc' = IF r.raised THEN "no_manager" ELSE "idle"

LoadDeckCall ==
    /\ \E found \in FoundFiles(deck.file) : LoadReturn(found, LoadDeck(deck, found))
    /\ UNCHANGED <<state, learning_blueprint, uploaded_material, knowledge_base,
                   current_concept_id, knowledge_mastery, dir, gen, turns,
                   history, tut, writers>>

\* A call on the manager that the last constructor call made.
UseManager ==
    /\ pc = "idle"
    /\ DeckNext

ManagerNext ==
    \/ LoadDeckCall
    \/ UseManager

ManagerSpec == DeckInit /\ [][ManagerNext]_vars

\* C32: making a review manager over a deck file that is no JSON, or is JSON
\* that does not fit the deck schema, does not raise: the file is gone
\* afterwards and the manager has an empty deck.
C32_CorruptDeckFileGivesEmptyDeck ==
    (last.call = "load_deck" /\ last.found \in {"corrupt", "misfit"}) =>
        /\ ~last.raised
        /\ pc = "idle"
        /\ deck.file.shape = "absent"
        /\ deck.cards = <<>>

(***************************************************************************)
(* KnowledgeBase.check_kb_validity (knowledge_base.py:106-147), which no   *)
(* other code of the repository calls.  It tells apart files that the rest *)
(* of the storage takes for corrupt, or for a mapping: a file of size 0    *)
(* ("empty"), one that is no JSON ("unparsable"), JSON whose root is no    *)
(* object ("not_object"), and an object whose "concepts" is a value that   *)
(* is no object, falsy (null, [], "", 0: "concepts_falsy") or not          *)
(* ("concepts_other").  ValiditySpec draws a directory of such files and   *)
(* applies the check to it.                                                *)
(***************************************************************************)
ValidityCutoff == 80   \* cutoff=0.8 of check_kb_validity

ValidityFiles ==
    { File("empty", <<>>), File("unparsable", <<>>), File("not_object", <<>>),
      File("bare", <<Entry("A", "obj")>>),
      File("concepts_list", <<Entry("A", "obj")>>),
      File("concepts_falsy", <<>>), File("concepts_other", <<>>),
      File("concepts", <<>>),
      File("concepts", <<Entry("A", "obj")>>) }

ValidityStems == {<<"a", "_", "a">>, <<"a", " ", "a">>}

ValidityDirs == UNION {[S -> ValidityFiles] : S \in SUBSET ValidityStems}

\* Names asked for: a stored name, one that is near enough at 0.8, one that
\* is near enough at 0.6 only, and one that is near nothing.
ValidityTopics == {<<"A", " ", "A">>, <<"A", "A">>, <<"A", " ", "a">>, <<"?">>}

NoFile == File("none", <<>>)

\* Lines 124-147 on the content of the matched file: the reason returned.
\* readFault: open() raises.  An empty mapping is falsy, as null and [] are,
\* so that line 138 takes it before lines 141 and 144 can.
ValidityReason(content, readFault) ==
    IF readFault THEN "unreadable"
    ELSE IF content.shape = "empty" THEN "empty_file"
    ELSE IF content.shape = "unparsable" THEN "unreadable"
    ELSE IF content.shape = "not_object" THEN "root_not_object"
    ELSE IF content.shape \in {"bare", "concepts_list", "concepts_falsy"}
    THEN "missing_concepts"
    ELSE IF content.shape = "concepts" /\ content.items = <<>> THEN "missing_concepts"
    ELSE IF content.shape = "concepts_other" THEN "concepts_not_object"
    ELSE "valid"

\* check_kb_validity(topic_name) after its scan gave avail: (valid, reason)
\* and the file it looked at.
CheckKbValidity(avail, d, topic_name, readFault) ==
    LET matched == GetCloseMatch(topic_name, DOMAIN avail, ValidityCutoff)
    IN  IF matched = Nil
        THEN [valid |-> FALSE, reason |-> "no_match", found |-> NoFile]
        ELSE [valid |-> ValidityReason(d[avail[matched]], readFault) = "valid",
              reason |-> ValidityReason(d[avail[matched]], readFault),
              found |-> d[avail[matched]]]

ValidityInit ==
    /\ state = "IDLE"
    /\ learning_blueprint = InitialBlueprint
    /\ uploaded_material = None
    /\ dir \in ValidityDirs
    /\ \E avail \in ScanResults(dir) :
          knowledge_base = [available_kbs |-> avail, concepts |-> <<>>,
                            current_kb_name |-> Nil, current_kb_path |-> Nil]
    /\ current_concept_id = None
    /\ knowledge_mastery = <<>>
    /\ pc = "idle"
    /\ gen = NoGen
    /\ last = NoCall
    /\ turns = 0
    /\ deck = EmptyDeck
    /\ history = <<>>
    /\ tut = NoTut
    /\ writers = NoWriters

ValidityCall(topic_name, readFault, r) ==
    [call |-> "check_kb_validity", topic_name |-> topic_name, fault |-> readFault,
     valid |-> r.valid, reason |-> r.reason, found |-> r.found]

CheckKbValidityWith(avail, topic_name, readFault) ==
    /\ knowledge_base' = [knowledge_base EXCEPT !.available_kbs = avail]
    /\ last' = ValidityCall(topic_name, readFault,
                            CheckKbValidity(avail, dir, topic_name, readFault))

CheckKbValidityCall ==
    /\ \E avail \in ScanResults(dir), topic_name \in ValidityTopics,
          readFault \in BOOLEAN :
          CheckKbValidityWith(avail, topic_name, readFault)
    /\ UNCHANGED <<state, learning_blueprint, uploaded_material, current_concept_id,
                   knowledge_mastery, dir, pc, gen, turns, deck, history, tut, writers>>

ValidityNext == CheckKbValidityCall

ValiditySpec == ValidityInit /\ [][ValidityNext]_vars

\* C33: check_kb_validity gives (false, reason) with the reason of the first
\* condition that the file it looked at violates, one reason for each of:
\* no name near enough, file of size 0, file that cannot be read or parsed,
\* root no object, no "concepts" key, "concepts" no object, "concepts" an
\* empty object; and (true, ...) only when the file violates none.
C33_ReasonNamesTheFirstViolation ==
    last.call = "check_kb_validity" =>
        /\ last.valid <=> last.reason = "valid"
        /\ last.reason =
              IF last.found = NoFile THEN "no_match"
              ELSE IF last.fault THEN "unreadable"
              ELSE CASE last.found.shape = "empty" -> "empty_file"
                     [] last.found.shape = "unparsable" -> "unreadable"
                     [] last.found.shape = "not_object" -> "root_not_object"
                     [] last.found.shape \in {"bare", "concepts_list"} -> "missing_concepts"
                     [] last.found.shape \in {"concepts_falsy", "concepts_other"} ->
                            "concepts_not_object"
                     [] last.found.shape = "concepts" /\ last.found.items = <<>> ->
                            "concepts_empty"
                     [] OTHER -> "valid"

(***************************************************************************)
(* Loading by name (LoadSpec): the storage round trips of StorageSpec and, *)
(* between them, load_kb_by_topic with any name, on the list of names that *)
(* the last scan left.                                                     *)
(***************************************************************************)
\* Names asked for: a stored name, one near enough at the cutoff 0.6, and
\* one that is near nothing.
LoadTopics == {<<"A", " ", "A">>, <<"A", " ", "a">>, <<"?">>}

LoadByTopicCall(topic_name, readFault, ld) ==
    [call |-> "load_kb_by_topic", topic_name |-> topic_name, fault |-> readFault,
     loaded |-> ld.loaded, reason |-> ld.reason]

LoadKbByTopicReturn(topic_name, readFault, ld) ==
    /\ knowledge_base' = ld.kb
    /\ last' = LoadByTopicCall(topic_name, readFault, ld)

LoadKbByTopicCall ==
    /\ \E topic_name \in LoadTopics, readFault \in BOOLEAN :
          LoadKbByTopicReturn(topic_name, readFault,
                              LoadKbByTopic(knowledge_base, dir, topic_name, readFault))
    /\ UNCHANGED <<state, learning_blueprint, uploaded_material, current_concept_id,
                   knowledge_mastery, dir, pc, gen, turns, deck, history, tut, writers>>

LoadNext ==
    \/ SaveRescanLoad
    \/ LoadKbByTopicCall

LoadSpec == StorageInit /\ [][LoadNext]_vars

\* This step is a call of load_kb_by_topic.
LoadCalled == last'.call = "load_kb_by_topic"

\* A stored name is the name asked for, or near enough to it at the cutoff.
SomeNameNear(topic_name) ==
    \E n \in DOMAIN knowledge_base.available_kbs :
        n = topic_name \/ RatioAtLeast(n, topic_name, LoadCutoff)

\* The knowledge base has no active collection.
Cleared(kbv) ==
    /\ kbv.concepts = <<>>
    /\ kbv.current_kb_name = Nil
    /\ kbv.current_kb_path = Nil

\* C34: a load_kb_by_topic that finds no stored name near enough to the one
\* asked for returns failure with the not-found reason and leaves the whole
\* knowledge base - concepts, name and path of the active collection, and
\* the list of names - as it was; a call changes the active collection only
\* when a name matched, and then it either loads the matched file or, when
\* that file cannot be read or parsed, and only then, leaves no active
\* collection.
C34_NotFoundLeavesTheCollection ==
    [][LoadCalled =>
        /\ ~SomeNameNear(last'.topic_name) =>
              /\ ~last'.loaded
              /\ last'.reason = "not_found"
              /\ knowledge_base' = knowledge_base
        /\ SomeNameNear(last'.topic_name) => last'.reason # "not_found"
        /\ last'.reason = "load_error" <=> (~last'.loaded /\ SomeNameNear(last'.topic_name))
        /\ last'.reason = "load_error" => Cleared(knowledge_base')
        /\ last'.loaded => knowledge_base'.current_kb_name # Nil
        /\ last'.fault => ~last'.loaded]_vars

\* A name that nothing is near to was asked for while a collection with
\* concepts was active, and the collection is still there.
C34_Witness ==
    /\ last.call = "load_kb_by_topic"
    /\ last.reason = "not_found"
    /\ knowledge_base.concepts # <<>>
    /\ knowledge_base.current_kb_name # Nil
    /\ knowledge_base.available_kbs # <<>>

(***************************************************************************)
(* Two callers of the storage tools at once (WritersSpec).  A call of      *)
(* save_knowledge_base (tools_custom.py:26-48) or add_concept_to_kb        *)
(* (66-95) is three steps: it reads the file into its local mapping; it    *)
(* opens the file for writing, which empties it; it dumps the merged       *)
(* mapping and closes the file.  Each writer makes one call; nothing       *)
(* orders the steps of the two.  A writer that dumps after the other wrote *)
(* into the file both had open writes from the start of the file over what *)
(* is there: the file is its own content, or that followed by the rest of  *)
(* a longer one, which is no JSON.                                         *)
(***************************************************************************)
Writers == {1, 2}

WriterStems == {<<"a", "_", "a">>}

IdleWriter ==
    [pc |-> "idle", call |-> "none", stem |-> <<>>, concepts |-> <<>>,
     existing |-> <<>>, clobbered |-> FALSE]

\* What the two tools are called with: any list of concepts for
\* save_knowledge_base, one concept for add_concept_to_kb.
WriterJobs ==
    {[call |-> "save_knowledge_base", concepts |-> c] : c \in ConceptLists \ {<<>>}}
    \cup {[call |-> "add_concept_to_kb", concepts |-> <<id>>] : id \in ConceptIds}

WriterDirs ==
    { <<>>,
      [st \in WriterStems |-> File("concepts", <<Entry("B", "obj")>>)],
      [st \in WriterStems |-> File("bare", <<Entry("A", "bad")>>)],
      [st \in WriterStems |-> Corrupt] }

\* What the run has shown so far: whether a call began while another was
\* under way.
WritersObs(overlapped) == [call |-> "writers", overlapped |-> overlapped]

SomeWriterUnderWay == \E v \in Writers : writers[v].pc \in {"read", "opened"}

PutFile(d, stem, content) ==
    [st \in DOMAIN d \cup {stem} |-> IF st = stem THEN content ELSE d[st]]

WritersInit ==
    /\ state = "IDLE"
    /\ learning_blueprint = InitialBlueprint
    /\ uploaded_material = None
    /\ dir \in WriterDirs
    /\ \E avail \in ScanResults(dir) :
          knowledge_base = [available_kbs |-> avail, concepts |-> <<>>,
                            current_kb_name |-> Nil, current_kb_path |-> Nil]
    /\ current_concept_id = None
    /\ knowledge_mastery = <<>>
    /\ pc = "idle"
    /\ gen = NoGen
    /\ last = WritersObs(FALSE)
    /\ turns = 0
    /\ deck = EmptyDeck
    /\ history = <<>>
    /\ tut = NoTut
    /\ writers = [w \in Writers |-> IdleWriter]

\* Lines 27-38 (75-85): the writer reads the file that is there.
WriterReads ==
    /\ \E w \in Writers, job \in WriterJobs, topic \in WriterStems :
          /\ writers[w].pc = "idle"
          /\ writers' = [writers EXCEPT ![w] =
                            [pc |-> "read", call |-> job.call,
                             stem |-> SanitizeFilename(topic),
                             concepts |-> job.concepts,
                             existing |-> ExistingConcepts(dir, SanitizeFilename(topic)),
                             clobbered |-> FALSE]]
    /\ last' = WritersObs(last.overlapped \/ SomeWriterUnderWay)
    /\ UNCHANGED <<state, learning_blueprint, uploaded_material, knowledge_base,
                   current_concept_id, knowledge_mastery, dir, pc, gen, turns, deck,
                   history, tut>>

\* Line 44 (92): open(filepath, 'w') empties the file.
WriterOpens ==
    /\ \E w \in Writers :
          /\ writers[w].pc = "read"
          /\ writers' = [writers EXCEPT ![w].pc = "opened"]
          /\ dir' = PutFile(dir, writers[w].stem, Corrupt)
    /\ UNCHANGED <<state, learning_blueprint, uploaded_material, knowledge_base,
                   current_concept_id, knowledge_mastery, pc, gen, last, turns, deck,
                   history, tut>>

\* The writers as w's dump leaves them: w is done, and a writer that has the
\* same file open will write over what w wrote.
AfterDump(w) ==
    [v \in Writers |->
        IF v = w THEN [writers[v] EXCEPT !.pc = "done"]
        ELSE IF writers[v].pc = "opened" /\ writers[v].stem = writers[w].stem
        THEN [writers[v] EXCEPT !.clobbered = TRUE]
        ELSE writers[v]]

\* Lines 41-45 (88-93): the merge and the dump.
WriterDumps ==
    /\ \E w \in Writers :
          /\ writers[w].pc = "opened"
          /\ writers' = AfterDump(w)
          /\ \E whole \in (IF writers[w].clobbered THEN BOOLEAN ELSE {TRUE}) :
                dir' = PutFile(dir, writers[w].stem,
                               IF whole
                               THEN File("concepts",
                                         DictUpdate(writers[w].existing,
                                                    [i \in 1..Len(writers[w].concepts) |->
                                                        Entry(writers[w].concepts[i], "obj")]))
                               ELSE Corrupt)
    /\ UNCHANGED <<state, learning_blueprint, uploaded_material, knowledge_base,
                   current_concept_id, knowledge_mastery, pc, gen, last, turns, deck,
                   history, tut>>

WritersNext ==
    \/ WriterReads
    \/ WriterOpens
    \/ WriterDumps

WritersSpec == WritersInit /\ [][WritersNext]_vars

AllWritersDone == \A w \in Writers : writers[w].pc = "done"

\* The file of writer w holds, under "concepts", every concept w was called
\* with.
FileHasConceptsOf(w) ==
    /\ writers[w].stem \in DOMAIN dir
    /\ dir[writers[w].stem].shape = "concepts"
    /\ Range(writers[w].concepts) \subseteq KeySet(dir[writers[w].stem].items)

\* C35: when two calls of save_knowledge_base or add_concept_to_kb on one
\* collection file ran one after the other - neither began while the other
\* was under way - the file holds the concepts of both at the end, and what
\* the first call found in the file as well.  (That interleaved calls can
\* lose the concepts of one is what the witness shows.)
C35_SerialWritersKeepBoth ==
    [][(~last'.overlapped /\ \E w \in Writers : writers[w].pc = "opened"
                                                /\ writers'[w].pc = "done") =>
          /\ \A v \in Writers : writers'[v].pc = "done" =>
                /\ writers'[v].stem \in DOMAIN dir'
                /\ dir'[writers'[v].stem].shape = "concepts"
                /\ Range(writers'[v].concepts)
                       \subseteq KeySet(dir'[writers'[v].stem].items)
          /\ \A w \in Writers :
                (writers[w].pc = "opened" /\ writers'[w].pc = "done") =>
                    KeySet(writers[w].existing)
                        \subseteq KeySet(dir'[writers[w].stem].items)]_vars

\* Both calls ended, their steps interleaved, the file is a well-formed
\* collection, and it lacks a concept of one of the two.
C35_Witness ==
    /\ AllWritersDone
    /\ last.overlapped
    /\ \A w \in Writers : dir[writers[w].stem].shape = "concepts"
    /\ \E w \in Writers : ~FileHasConceptsOf(w)

\* C36: a tutoring turn that ends in the apology for a strategist that
\* raised, gave nothing, or gave no valid decision leaves the deck as it was
\* before the turn: its first step gave the deck no card and left the deck
\* file alone, and its second step does not touch the deck.
C36_StrategistFailureLeavesTheDeck ==
    [][(StrategistAsked /\ last'.answer.strategist \notin ResponseStrategy) =>
          /\ tut.added = 0
          /\ ~tut.file_changed
          /\ deck' = deck]_vars

(***************************************************************************)
(* The pointer of a session (Spec).                                        *)
(***************************************************************************)
\* C37: whenever the program is between calls in TUTORING, the
\* current-concept pointer is set and is a key of the active collection.
C37_PointerIsAConceptOfTheCollection ==
    (pc = "idle" /\ state = "TUTORING") =>
        /\ current_concept_id # None
        /\ current_concept_id \in Range(GetConceptKeys(knowledge_base.concepts))

\* Between two turns of a session that a progress_to_next_concept turn has
\* moved to the second concept.
C37_Witness ==
    /\ pc = "idle"
    /\ state = "TUTORING"
    /\ last.handler = "tutoring"
    /\ last.answer.service = "strategist"
    /\ last.answer.strategist = "progress_to_next_concept"
    /\ current_concept_id = "B"
    /\ GetConceptKeys(knowledge_base.concepts) = <<"A", "B">>

\* Every concept before the current one, in the order of the active
\* collection, has a mastery at or above the threshold.
MasteredBeforePointer(m, concepts, ptr) ==
    \A i \in 1..Len(concepts) :
        (\E j \in (i + 1)..Len(concepts) : concepts[j].name = ptr) =>
            MasteryGet(m, concepts[i].name, 0) >= mastery_threshold

\* This step is the second of a tutoring turn, and in it a decision to
\* progress ended the session.
ProgressEndsSession ==
    /\ StrategistAsked
    /\ last'.answer.strategist = "progress_to_next_concept"
    /\ state = "TUTORING"
    /\ state' = "IDLE"

\* C38: whenever the program is between calls in TUTORING, every concept
\* that comes before the current one in the active collection has a mastery
\* at or above the threshold; and when a progress_to_next_concept turn ends
\* the session, every concept of the collection has.
C38_ConceptsBehindAreMastered ==
    /\ [](( pc = "idle" /\ state = "TUTORING") =>
            MasteredBeforePointer(knowledge_mastery, knowledge_base.concepts,
                                  current_concept_id))
    /\ [][ProgressEndsSession =>
            AllMastered(knowledge_mastery', knowledge_base'.concepts)]_vars

\* A session over two concepts, begun by an accepted generation, that a
\* progress_to_next_concept turn has moved to the second concept.
C38_Witness ==
    /\ pc = "idle"
    /\ state = "TUTORING"
    /\ last.handler = "tutoring"
    /\ last.reply = "next_concept"
    /\ Len(knowledge_base.concepts) = 2
    /\ current_concept_id = knowledge_base.concepts[2].name
    /\ MasteryGet(knowledge_mastery, knowledge_base.concepts[1].name, 0) = MasteryScale

\* The place of a concept in the order of a collection, 0 for what is no
\* concept of it.
Position(concepts, id) ==
    IF \E i \in 1..Len(concepts) : concepts[i].name = id
    THEN CHOOSE i \in 1..Len(concepts) : concepts[i].name = id
    ELSE 0

\* C39: within a tutoring session - over the steps that begin and end in
\* TUTORING - the place of the current concept in the order of the
\* collection never goes down, and it goes up in every turn in which the
\* strategist decided progress_to_next_concept; it is never beyond the
\* number N of concepts, so that a session stays in TUTORING through fewer
\* than N such turns: a progress_to_next_concept turn from the last place
\* ends the session.
C39_PointerMovesForward ==
    [][/\ (state = "TUTORING" /\ state' = "TUTORING") =>
             /\ knowledge_base' = knowledge_base
             /\ Position(knowledge_base.concepts, current_concept_id) >= 1
             /\ Position(knowledge_base.concepts, current_concept_id')
                    >= Position(knowledge_base.concepts, current_concept_id)
             /\ Position(knowledge_base.concepts, current_concept_id')
                    <= Len(knowledge_base.concepts)
       /\ (StrategistAsked /\ last'.answer.strategist = "progress_to_next_concept") =>
             /\ state' = "TUTORING" =>
                    Position(knowledge_base.concepts, current_concept_id')
                        > Position(knowledge_base.concepts, current_concept_id)
             /\ Position(knowledge_base.concepts, current_concept_id)
                    = Len(knowledge_base.concepts) => state' = "IDLE"]_vars

\* The first turn of a session over two concepts was a
\* progress_to_next_concept, and the session goes on at the second place.
C39_Witness ==
    /\ pc = "idle"
    /\ turns = 1
    /\ state = "TUTORING"
    /\ last.answer.service = "strategist"
    /\ last.answer.strategist = "progress_to_next_concept"
    /\ Len(knowledge_base.concepts) = 2
    /\ Position(knowledge_base.concepts, current_concept_id) = 2

\* C40: whenever the generation service is asked during knowledge-base
\* generation, the stored uploaded material is None.
C40_GeneratorNeverSeesMaterial ==
    pc = "call_generator" => uploaded_material = None

====
